---------------------------- MODULE Spec2Model ----------------------------
(***************************************************************************)
(* The file-mailbox bridge of the darktable MCP scripts: the poller        *)
(* process_commands of the Lua bridge, its embedded JSON codec and its     *)
(* command table, run by several watcher instances over one mailbox        *)
(* directory.                                                              *)
(*                                                                         *)
(* A Lua string is a sequence of one-character strings, so that the codec  *)
(* is computed character by character as the script computes it.           *)
(***************************************************************************)
EXTENDS Integers, Sequences, FiniteSets, TLC

(***************************************************************************)
(* Lua values.  Every value is a record with a kind k and a payload v; the *)
(* kind is always compared first.  A number is <<m, e, f>>: the value      *)
(* m * 10^e with e <= 0 in lowest terms, f telling the float subtype.  A   *)
(* table is the sequence of its <<key, value>> entries in insertion order. *)
(***************************************************************************)
LNil == [k |-> "nil", v |-> <<>>]
LBool(b) == [k |-> "boolean", v |-> <<b>>]
LInt(n) == [k |-> "number", v |-> <<n, 0, FALSE>>]
LNumber(m, e, f) == [k |-> "number", v |-> <<m, e, f>>]
LStr(s) == [k |-> "string", v |-> s]
LTab(entries) == [k |-> "table", v |-> entries]
LTrue == LBool(TRUE)
LFalse == LBool(FALSE)

IsNil(x) == x.k = "nil"
Truthy(x) == ~(x.k = "nil" \/ (x.k = "boolean" /\ x.v = <<FALSE>>))

\* raw equality of two keys: same kind and, for numbers, the same value
KeyEq(a, b) ==
  /\ a.k = b.k
  /\ IF a.k = "number" THEN a.v[1] = b.v[1] /\ a.v[2] = b.v[2] ELSE a.v = b.v

RECURSIVE RawGetFrom(_, _, _)
RawGetFrom(entries, key, i) ==
  IF i > Len(entries) THEN LNil
  ELSE IF KeyEq(entries[i][1], key) THEN entries[i][2]
  ELSE RawGetFrom(entries, key, i + 1)

\* t[key] of a table t
RawGet(t, key) == RawGetFrom(t.v, key, 1)

\* t[key] = val
RawSet(t, key, val) ==
  LET has == \E i \in 1..Len(t.v) : KeyEq(t.v[i][1], key)
      kept == SelectSeq(t.v, LAMBDA en : ~KeyEq(en[1], key))
  IN IF IsNil(val) THEN LTab(kept)
     ELSE IF has
       THEN LTab([i \in 1..Len(t.v) |->
                    IF KeyEq(t.v[i][1], key) THEN <<key, val>> ELSE t.v[i]])
       ELSE LTab(Append(t.v, <<key, val>>))

(***************************************************************************)
(* Characters.                                                             *)
(***************************************************************************)
DigitChars == <<"0", "1", "2", "3", "4", "5", "6", "7", "8", "9">>
Digits == {DigitChars[i] : i \in 1..10}
DigitOf(c) == (CHOOSE i \in 1..10 : DigitChars[i] = c) - 1
\* the class %s of Lua patterns; "VT" stands for the vertical tab
Space == {" ", "\t", "\n", "\r", "\f", "VT"}

\* str:sub(pos, pos): the empty string outside the string
At(str, pos) == IF pos >= 1 /\ pos <= Len(str) THEN str[pos] ELSE ""

\* str:sub(i, j)
Sub(str, i, j) ==
  LET lo == IF i < 1 THEN 1 ELSE i
      hi == IF j > Len(str) THEN Len(str) ELSE j
  IN IF lo > hi THEN <<>> ELSE SubSeq(str, lo, hi)

RECURSIVE SkipSpace(_, _)
\* pos + #str:match('^%s*', pos)
SkipSpace(str, pos) ==
  IF pos <= Len(str) /\ str[pos] \in Space THEN SkipSpace(str, pos + 1) ELSE pos

RECURSIVE DigitsEnd(_, _)
\* the position after the longest run of digits that starts at pos
DigitsEnd(str, pos) ==
  IF pos <= Len(str) /\ str[pos] \in Digits THEN DigitsEnd(str, pos + 1) ELSE pos

RECURSIVE DigitsVal(_, _)
DigitsVal(ds, acc) ==
  IF ds = <<>> THEN acc ELSE DigitsVal(Tail(ds), 10 * acc + DigitOf(Head(ds)))

RECURSIVE Pow10(_)
Pow10(n) == IF n <= 0 THEN 1 ELSE 10 * Pow10(n - 1)

RECURSIVE IntChars(_)
IntChars(n) ==
  IF n < 0 THEN <<"-">> \o IntChars(0 - n)
  ELSE IF n < 10 THEN <<DigitChars[n + 1]>>
  ELSE IntChars(n \div 10) \o <<DigitChars[(n % 10) + 1]>>

RECURSIVE Normal(_, _)
\* m * 10^e in lowest terms with e <= 0
Normal(m, e) ==
  IF e > 0 THEN Normal(m * 10, e - 1)
  ELSE IF e < 0 /\ m % 10 = 0 THEN Normal(m \div 10, e + 1)
  ELSE <<m, e>>

(***************************************************************************)
(* Errors.  error(msg) called with a string at a line of the script puts   *)
(* the position of the call in front of the message; the chunk name is one *)
(* opaque element.  A protected call returns Ok or Fail.                   *)
(***************************************************************************)
ChunkName == "dt_mcp_bridge.lua"
Where(line) == <<ChunkName, ":">> \o IntChars(line) \o <<":", " ">>
Ok(val, pos) == [ok |-> TRUE, val |-> val, pos |-> pos]
Fail(line, msg, pos) == [ok |-> FALSE, val |-> LStr(Where(line) \o msg), pos |-> pos]

S_Expected == <<"E", "x", "p", "e", "c", "t", "e", "d", " ">>
S_NearPosition == <<" ", "n", "e", "a", "r", " ", "p", "o", "s", "i", "t", "i", "o", "n", " ">>
S_EarlyEnd == <<"E", "n", "d", " ", "o", "f", " ", "i", "n", "p", "u", "t", " ", "f", "o", "u", "n", "d", " ", "w", "h", "i", "l", "e", " ", "p", "a", "r", "s", "i", "n", "g", " ", "s", "t", "r", "i", "n", "g", ".">>
S_NumberError == <<"E", "r", "r", "o", "r", " ", "p", "a", "r", "s", "i", "n", "g", " ", "n", "u", "m", "b", "e", "r", " ", "a", "t", " ", "p", "o", "s", "i", "t", "i", "o", "n", " ">>
S_UnexpectedEnd == <<"R", "e", "a", "c", "h", "e", "d", " ", "u", "n", "e", "x", "p", "e", "c", "t", "e", "d", " ", "e", "n", "d", " ", "o", "f", " ", "i", "n", "p", "u", "t", ".">>
S_ObjectComma == <<"C", "o", "m", "m", "a", " ", "m", "i", "s", "s", "i", "n", "g", " ", "b", "e", "t", "w", "e", "e", "n", " ", "o", "b", "j", "e", "c", "t", " ", "i", "t", "e", "m", "s", ".">>
S_ArrayComma == <<"C", "o", "m", "m", "a", " ", "m", "i", "s", "s", "i", "n", "g", " ", "b", "e", "t", "w", "e", "e", "n", " ", "a", "r", "r", "a", "y", " ", "i", "t", "e", "m", "s", ".">>
S_InvalidSyntax == <<"I", "n", "v", "a", "l", "i", "d", " ", "J", "S", "O", "N", " ", "s", "y", "n", "t", "a", "x", " ", "s", "t", "a", "r", "t", "i", "n", "g", " ", "a", "t", " ">>
S_true == <<"t", "r", "u", "e">>
S_false == <<"f", "a", "l", "s", "e">>
S_null == <<"n", "u", "l", "l">>

(***************************************************************************)
(* The JSON decoder.                                                       *)
(***************************************************************************)
\* skip_delim: [ok, pos, found]
skip_delim(str, pos, delim, err_if_missing) ==
  LET p == SkipSpace(str, pos)
  IN IF At(str, p) # delim
       THEN IF err_if_missing
              THEN [ok |-> FALSE, pos |-> p, found |-> FALSE,
                    val |-> LStr(Where(47) \o S_Expected \o <<delim>>
                                 \o S_NearPosition \o IntChars(p))]
              ELSE [ok |-> TRUE, pos |-> p, found |-> FALSE, val |-> LNil]
       ELSE [ok |-> TRUE, pos |-> p + 1, found |-> TRUE, val |-> LNil]

RECURSIVE parse_str_val(_, _, _)
parse_str_val(str, pos, val) ==
  IF pos > Len(str) THEN Fail(56, S_EarlyEnd, pos)
  ELSE LET c == At(str, pos)
       IN IF c = "\"" THEN Ok(LStr(val), pos + 1)
          ELSE IF c # "\\" THEN parse_str_val(str, pos + 1, Append(val, c))
          ELSE \* an escaped character is taken as it stands
               LET next_c == Sub(str, pos + 1, pos + 1)
               IN parse_str_val(str, pos + 2, val \o next_c)

\* tonumber of the text the number pattern matched: [ok, val]
ToNumber(str, pos) ==
  LET p0 == IF At(str, pos) = "-" THEN pos + 1 ELSE pos
      p1 == DigitsEnd(str, p0)
      p2 == IF At(str, p1) = "." THEN p1 + 1 ELSE p1
      p3 == DigitsEnd(str, p2)
      p4 == IF At(str, p3) \in {"e", "E"} THEN p3 + 1 ELSE p3
      p5 == IF At(str, p4) \in {"+", "-"} THEN p4 + 1 ELSE p4
      p6 == DigitsEnd(str, p5)
      matched == p1 > p0
      numeral == \/ p6 = p3                \* no exponent part
                 \/ (p4 > p3 /\ p6 > p5)   \* e, an optional sign, digits
      frac == Sub(str, p2, p3 - 1)
      mant == DigitsVal(Sub(str, p0, p1 - 1) \o frac, 0)
      expo == IF p4 > p3
                THEN (IF At(str, p4) = "-" THEN 0 - 1 ELSE 1)
                     * DigitsVal(Sub(str, p5, p6 - 1), 0)
                ELSE 0
      float == p2 > p1 \/ p4 > p3
      n == Normal(IF p0 > pos THEN 0 - mant ELSE mant, expo - Len(frac))
  IN [ok |-> matched /\ numeral,
      val |-> IF matched /\ numeral THEN LNumber(n[1], n[2], float) ELSE LNil,
      pos |-> IF matched THEN p6 ELSE pos]

parse_num_val(str, pos) ==
  LET t == ToNumber(str, pos)
  IN IF ~t.ok THEN Fail(69, S_NumberError \o IntChars(pos), pos)
     ELSE Ok(t.val, t.pos)

RECURSIVE json_decode(_, _, _), decode_object(_, _, _, _), decode_array(_, _, _, _)
\* json.decode(str, pos, end_delim); end_delim is "" when it is not given
json_decode(str, pos, end_delim) ==
  IF pos > Len(str) THEN Fail(112, S_UnexpectedEnd, pos)
  ELSE
    LET p == SkipSpace(str, pos)
        first == At(str, p)
    IN IF first = "{" THEN decode_object(str, p + 1, LTab(<<>>), TRUE)
       ELSE IF first = "[" THEN decode_array(str, p + 1, LTab(<<>>), TRUE)
       ELSE IF first = "\"" THEN parse_str_val(str, p + 1, <<>>)
       ELSE IF first = "-" \/ first \in Digits THEN parse_num_val(str, p)
       ELSE IF end_delim # "" /\ first = end_delim THEN Ok(LNil, p + 1)
       \* the literals table holds 'true' and 'false' only: a nil value
       \* makes no entry, so 'null' is no literal
       ELSE IF Sub(str, p, p + 3) = S_true THEN Ok(LTrue, p + 4)
       ELSE IF Sub(str, p, p + 4) = S_false THEN Ok(LFalse, p + 5)
       ELSE Fail(148, S_InvalidSyntax \o IntChars(p), p)

\* the loop of the '{' branch, entered with obj and delim_found
decode_object(str, pos, obj, delim_found) ==
  LET key == json_decode(str, pos, "}")
  IN IF ~key.ok THEN key
     ELSE IF IsNil(key.val) THEN Ok(obj, key.pos)
     ELSE IF ~delim_found THEN Fail(121, S_ObjectComma, key.pos)
     ELSE LET c == skip_delim(str, key.pos, ":", TRUE)
          IN IF ~c.ok THEN [ok |-> FALSE, val |-> c.val, pos |-> c.pos]
             ELSE LET val == json_decode(str, c.pos, "")
                  IN IF ~val.ok THEN val
                     ELSE LET d == skip_delim(str, val.pos, ",", FALSE)
                          IN decode_object(str, d.pos,
                                           RawSet(obj, key.val, val.val), d.found)

\* the loop of the '[' branch, entered with arr and delim_found
decode_array(str, pos, arr, delim_found) ==
  LET val == json_decode(str, pos, "]")
  IN IF ~val.ok THEN val
     ELSE IF IsNil(val.val) THEN Ok(arr, val.pos)
     ELSE IF ~delim_found THEN Fail(132, S_ArrayComma, val.pos)
     ELSE LET d == skip_delim(str, val.pos, ",", FALSE)
          IN decode_array(str, d.pos,
                          RawSet(arr, LInt(Len(arr.v) + 1), val.val), d.found)

(***************************************************************************)
(* The JSON encoder.                                                       *)
(***************************************************************************)
S_ArrayAsKey == <<"C", "a", "n", "'", "t", " ", "e", "n", "c", "o", "d", "e", " ", "a", "r", "r", "a", "y", " ", "a", "s", " ", "k", "e", "y", ".">>
S_TableAsKey == <<"C", "a", "n", "'", "t", " ", "e", "n", "c", "o", "d", "e", " ", "t", "a", "b", "l", "e", " ", "a", "s", " ", "k", "e", "y", ".">>

\* kind_of: a table whose n >= 1 entries are exactly obj[1] .. obj[n] is an array
kind_of(obj) ==
  IF obj.k # "table" THEN obj.k
  ELSE IF Len(obj.v) >= 1 /\ \A i \in 1..Len(obj.v) : ~IsNil(RawGet(obj, LInt(i)))
    THEN "array" ELSE "table"

RECURSIVE Gsub(_, _, _)
\* s:gsub(c, rep) for a one-character pattern c that is no magic character
Gsub(s, c, rep) ==
  IF s = <<>> THEN <<>>
  ELSE (IF Head(s) = c THEN rep ELSE <<Head(s)>>) \o Gsub(Tail(s), c, rep)

\* "BS" stands for the backspace character
in_char == <<"\\", "\"", "/", "BS", "\f", "\n", "\r", "\t">>
out_char == <<"\\", "\"", "/", "b", "f", "n", "r", "t">>

RECURSIVE escape_from(_, _)
escape_from(s, i) ==
  IF i > Len(in_char) THEN s
  ELSE escape_from(Gsub(s, in_char[i], <<"\\", out_char[i]>>), i + 1)

escape_str(s) == escape_from(s, 1)

RECURSIVE Zeros(_)
Zeros(n) == IF n <= 0 THEN <<>> ELSE <<"0">> \o Zeros(n - 1)

\* tostring of a number (%d for the integer subtype, %.14g for a float, which
\* always shows that it is a float)
NumberToString(v) ==
  LET m == v[1]
      e == v[2]
      ds == IntChars(IF m < 0 THEN 0 - m ELSE m)
      sign == IF m < 0 THEN <<"-">> ELSE <<>>
      X == Len(ds) - 1 + e     \* the decimal exponent of the value
      ex == 0 - X
  IN IF ~v[3] THEN IntChars(m)
     ELSE IF e = 0 THEN sign \o ds \o <<".", "0">>
     ELSE IF X >= 0 THEN sign \o Sub(ds, 1, X + 1) \o <<".">> \o Sub(ds, X + 2, Len(ds))
     ELSE IF X >= 0 - 4 THEN sign \o <<"0", ".">> \o Zeros(ex - 1) \o ds
     ELSE sign \o <<Head(ds)>>
          \o (IF Len(ds) > 1 THEN <<".">> \o Tail(ds) ELSE <<>>)
          \o <<"e", "-">> \o (IF ex < 10 THEN <<"0">> ELSE <<>>) \o IntChars(ex)

EncOk(chars) == [ok |-> TRUE, val |-> chars]
EncFail(line, msg) == [ok |-> FALSE, val |-> Where(line) \o msg]

RECURSIVE json_encode(_, _), encode_items(_, _, _), encode_entries(_, _, _)
\* json.encode(obj, as_key): [ok, val], val the text or the error message
json_encode(obj, as_key) ==
  LET kind == kind_of(obj)
  IN IF kind = "array" THEN
       IF as_key THEN EncFail(77, S_ArrayAsKey)
       ELSE encode_items(obj, 1, <<"[">>)
     ELSE IF kind = "table" THEN
       IF as_key THEN EncFail(85, S_TableAsKey)
       ELSE encode_entries(obj.v, 1, <<"{">>)
     ELSE IF kind = "string" THEN EncOk(<<"\"">> \o escape_str(obj.v) \o <<"\"">>)
     ELSE IF kind = "number" THEN
       EncOk(IF as_key THEN <<"\"">> \o NumberToString(obj.v) \o <<"\"">>
             ELSE NumberToString(obj.v))
     ELSE IF kind = "boolean" THEN EncOk(IF obj.v[1] THEN S_true ELSE S_false)
     ELSE EncOk(S_null)

\* the ipairs loop of the array branch, from index i with the text s so far
encode_items(obj, i, s) ==
  LET val == RawGet(obj, LInt(i))
  IN IF IsNil(val) THEN EncOk(s \o <<"]">>)
     ELSE LET r == json_encode(val, FALSE)
          IN IF ~r.ok THEN r
             ELSE encode_items(obj, i + 1,
                    s \o (IF i > 1 THEN <<",", " ">> ELSE <<>>) \o r.val)

\* the pairs loop of the table branch; pairs visits the entries in the order
\* of the sequence
encode_entries(entries, i, s) ==
  IF i > Len(entries) THEN EncOk(s \o <<"}">>)
  ELSE LET rk == json_encode(entries[i][1], TRUE)
       IN IF ~rk.ok THEN rk
          ELSE LET rv == json_encode(entries[i][2], FALSE)
               IN IF ~rv.ok THEN rv
                  ELSE encode_entries(entries, i + 1,
                         s \o (IF i > 1 THEN <<",", " ">> ELSE <<>>)
                           \o rk.val \o <<":">> \o rv.val)

(***************************************************************************)
(* The command table and the dispatch of one claimed payload.              *)
(***************************************************************************)
S_cmd == <<"c", "m", "d">>
S_args == <<"a", "r", "g", "s">>
S_set_rating == <<"s", "e", "t", "_", "r", "a", "t", "i", "n", "g">>
S_set_color_label == <<"s", "e", "t", "_", "c", "o", "l", "o", "r", "_", "l", "a", "b", "e", "l">>
S_attach_tag == <<"a", "t", "t", "a", "c", "h", "_", "t", "a", "g">>
S_get_selection == <<"g", "e", "t", "_", "s", "e", "l", "e", "c", "t", "i", "o", "n">>
S_apply_style == <<"a", "p", "p", "l", "y", "_", "s", "t", "y", "l", "e">>
S_img_id == <<"i", "m", "g", "_", "i", "d">>
S_rating == <<"r", "a", "t", "i", "n", "g">>
S_ImageNotFound == <<"I", "m", "a", "g", "e", " ", "n", "o", "t", " ", "f", "o", "u", "n", "d", ":", " ">>
S_UnknownCommand == <<"U", "n", "k", "n", "o", "w", "n", " ", "c", "o", "m", "m", "a", "n", "d", ":", " ">>
S_JsonParseError == <<"J", "S", "O", "N", " ", "p", "a", "r", "s", "e", " ", "e", "r", "r", "o", "r", ":", " ">>
S_status == <<"s", "t", "a", "t", "u", "s">>
S_ok == <<"o", "k">>
S_error == <<"e", "r", "r", "o", "r">>
S_data == <<"d", "a", "t", "a">>
S_success == <<"s", "u", "c", "c", "e", "s", "s">>
S_id == <<"i", "d">>
S_new_rating == <<"n", "e", "w", "_", "r", "a", "t", "i", "n", "g">>
S_AttemptIndex == <<"a", "t", "t", "e", "m", "p", "t", " ", "t", "o", " ", "i", "n", "d", "e", "x", " ", "a", " ">>
S_value == <<" ", "v", "a", "l", "u", "e">>
S_BadArgument == <<"b", "a", "d", " ", "a", "r", "g", "u", "m", "e", "n", "t">>
S_nil == <<"n", "i", "l">>
S_boolean == <<"b", "o", "o", "l", "e", "a", "n">>
S_number == <<"n", "u", "m", "b", "e", "r">>
S_string == <<"s", "t", "r", "i", "n", "g">>
S_table == <<"t", "a", "b", "l", "e">>

KindChars(x) ==
  CASE x.k = "nil" -> S_nil
    [] x.k = "boolean" -> S_boolean
    [] x.k = "number" -> S_number
    [] x.k = "string" -> S_string
    [] x.k = "table" -> S_table

\* tostring(x); the address in the text of a table is one opaque element
tostring(x) ==
  CASE x.k = "nil" -> S_nil
    [] x.k = "boolean" -> IF x.v[1] THEN S_true ELSE S_false
    [] x.k = "number" -> NumberToString(x.v)
    [] x.k = "string" -> x.v
    [] x.k = "table" -> S_table \o <<":", " ", "0x">>

\* obj[key] for a string key that is no function of the string library: a
\* table is looked up, a string answers nil, any other value raises
Index(obj, key, line) ==
  IF obj.k = "table" THEN Ok(RawGet(obj, LStr(key)), 0)
  ELSE IF obj.k = "string" THEN Ok(LNil, 0)
  ELSE Fail(line, S_AttemptIndex \o KindChars(obj) \o S_value, 0)

\* the names registered in the table commands
commands ==
  {S_set_rating, S_set_color_label, S_attach_tag, S_get_selection, S_apply_style}

\* commands[cmd_name] is a handler
IsCommand(cmd_name) == cmd_name.k = "string" /\ cmd_name.v \in commands

\* the images of the library
Images == {42}

\* dt.database.get_image(img_id): the image, nil when the library has none of
\* that id, an error when the id is no integer
get_image(img_id, db) ==
  IF img_id.k = "number" /\ img_id.v[2] = 0
    THEN Ok(IF img_id.v[1] \in DOMAIN db THEN img_id ELSE LNil, 0)
    ELSE Fail(160, S_BadArgument, 0)

\* a set_rating that answers without storing the rating
set_rating_unsaved(args, db) ==
  [ok |-> TRUE,
   val |-> LTab(<< <<LStr(S_success), LTrue>>,
                   <<LStr(S_id), Index(args, S_img_id, 158).val>>,
                   <<LStr(S_new_rating), Index(args, S_rating, 159).val>> >>),
   db |-> db]
\* commands.set_rating(args) on the library db: [ok, val, db]
set_rating(args, db) ==
  LET img_id == Index(args, S_img_id, 158)
      rating == Index(args, S_rating, 159)
      keep(r) == [ok |-> FALSE, val |-> r.val, db |-> db]
  IN IF ~img_id.ok THEN keep(img_id)
     ELSE IF ~rating.ok THEN keep(rating)
     ELSE LET img == get_image(img_id.val, db)
          IN IF ~img.ok THEN keep(img)
             ELSE IF ~Truthy(img.val)
               THEN keep(Fail(162, S_ImageNotFound \o tostring(img_id.val), 0))
             ELSE IF ~(rating.val.k = "number" /\ rating.val.v[2] = 0)
               THEN keep(Fail(164, S_BadArgument, 0))
             ELSE LET db2 == [db EXCEPT ![img_id.val.v[1]] = rating.val.v[1]]
                  IN [ok |-> TRUE,
                      val |-> LTab(<< <<LStr(S_success), LTrue>>,
                                      <<LStr(S_id), img_id.val>>,
                                      <<LStr(S_new_rating),
                                        LInt(db2[img_id.val.v[1]])>> >>),
                      db |-> db2]

\* pcall(commands[cmd_name], args); the payloads of the model name set_rating
\* as their only registered command
CallCommand(cmd_name, args, db) ==
  CASE cmd_name = S_set_rating -> set_rating(args, db)

\* an error reply that carries its message in the data field
ErrorAsData(msg) ==
  LTab(<< <<LStr(S_status), LStr(S_error)>>, <<LStr(S_data), LStr(msg)>> >>)
ErrorPayload(msg) ==
  LTab(<< <<LStr(S_status), LStr(S_error)>>, <<LStr(S_error), LStr(msg)>> >>)
OkPayload(data) ==
  LTab(<< <<LStr(S_status), LStr(S_ok)>> >>
       \o (IF IsNil(data) THEN <<>> ELSE << <<LStr(S_data), data>> >>))

\* What lines 266-295 of process_commands make of the text read from the
\* claimed file: raised tells that an error left process_commands, called is
\* the command that was run (or <<>>), payload is result_payload, resp_str its
\* encoding.

\* resp_str = json.encode(result_payload); an error of the encoder is not caught
Serialized(enc, payload, called, db) ==
  [raised |-> ~enc.ok, called |-> called, db |-> db, payload |-> payload,
   resp_str |-> IF enc.ok THEN enc.val ELSE <<>>]
Serialize(payload, called, db) ==
  Serialized(json_encode(payload, FALSE), payload, called, db)

\* the uncaught error of indexing a request that is no table and no string
Raised(db) ==
  [raised |-> TRUE, called |-> <<>>, db |-> db, payload |-> LNil, resp_str |-> <<>>]

\* status_exec, res_exec of the protected call of the handler
Executed(name, exec) ==
  IF exec.ok THEN Serialize(OkPayload(exec.val), name, exec.db)
  ELSE Serialize(ErrorPayload(tostring(exec.val)), name, exec.db)

\* the lookup of request.cmd in the table commands, with request.args or {}
Lookup(cmd_name, args, db) ==
  IF ~cmd_name.ok \/ ~args.ok THEN Raised(db)
  ELSE IF IsCommand(cmd_name.val)
    THEN Executed(cmd_name.val.v,
                  CallCommand(cmd_name.val.v,
                              IF Truthy(args.val) THEN args.val ELSE LTab(<<>>), db))
    ELSE Serialize(ErrorPayload(S_UnknownCommand \o tostring(cmd_name.val)), <<>>, db)

\* status_parse, res_parse of the protected call of json.decode
Parsed(parse, db) ==
  IF parse.ok /\ Truthy(parse.val)
    THEN Lookup(Index(parse.val, S_cmd, 273), Index(parse.val, S_args, 274), db)
    ELSE Serialize(ErrorPayload(S_JsonParseError \o tostring(parse.val)), <<>>, db)

Dispatch(content, db) == Parsed(json_decode(content, 1, ""), db)

(***************************************************************************)
(* The mailbox directory and the watchers.                                 *)
(***************************************************************************)
NumWatchers == 2     \* watcher instances polling the same directory
MaxRequests == 2     \* requests submitted in one behaviour
MaxCrashes == 1      \* watcher crashes in one behaviour

Watchers == 1..NumWatchers
Requests == 1..MaxRequests

CMD_FILE == "cmd.json"
PROC_FILE == "processing.json"
RESP_TMP_FILE == "response.json.tmp"
RESP_FILE == "response.json"
Paths == {CMD_FILE, PROC_FILE, RESP_TMP_FILE, RESP_FILE}

\* a file is an inode; a path names an inode or nothing (0), and an open
\* handle keeps its inode whatever the paths do
Inodes == 1..(NumWatchers + Cardinality(Paths))
NoFile == [bytes |-> <<>>, req |-> 0, role |-> "none"]

\* the payloads a client submits
P_ok == <<"{", "\"", "c", "m", "d", "\"", ":", "\"", "s", "e", "t", "_", "r", "a", "t", "i", "n", "g", "\"", ",", "\"", "a", "r", "g", "s", "\"", ":", "{", "\"", "i", "m", "g", "_", "i", "d", "\"", ":", "4", "2", ",", "\"", "r", "a", "t", "i", "n", "g", "\"", ":", "5", "}", "}">>
P_missing == <<"{", "\"", "c", "m", "d", "\"", ":", "\"", "s", "e", "t", "_", "r", "a", "t", "i", "n", "g", "\"", ",", "\"", "a", "r", "g", "s", "\"", ":", "{", "\"", "i", "m", "g", "_", "i", "d", "\"", ":", "9", "9", "9", "9", ",", "\"", "r", "a", "t", "i", "n", "g", "\"", ":", "5", "}", "}">>
P_unknown == <<"{", "\"", "c", "m", "d", "\"", ":", "\"", "n", "o", "n", "e", "x", "i", "s", "t", "e", "n", "t", "_", "c", "m", "d", "\"", ",", "\"", "a", "r", "g", "s", "\"", ":", "{", "}", "}">>
P_malformed == <<"{", "\"", "c", "m", "d", "\"", ":", "\"", "s", "e", "t", "_", "r", "a", "t", "i", "n", "g", "\"", ",", "\"", "a", "r", "g", "s", "\"", ":">>
P_number == <<"5">>
P_empty == <<>>
Payloads == {P_ok, P_missing, P_unknown, P_malformed, P_number, P_empty}

\* the ratings darktable knows and the libraries of the model
Ratings == 0..5
Libraries == [Images -> Ratings]
\* Dispatch, worked out once for every payload and library
Outcomes == [p \in Payloads |-> [d \in Libraries |-> Dispatch(p, d)]]

(***************************************************************************)
(* The request files of the panel and of the storage module.  Each         *)
(* submission opens a file named after os.time() with io.open(path, "w").  *)
(***************************************************************************)
MaxSeconds == 1

Seconds == 0..MaxSeconds
\* the image an export hands to the storage callback
Exported == {42}
S_gui_request == <<"g", "u", "i", "_", "r", "e", "q", "u", "e", "s", "t", "_">>
S_upload == <<"u", "p", "l", "o", "a", "d", "_">>
S_json == <<".", "j", "s", "o", "n">>
S_tool == <<"t", "o", "o", "l">>
S_auto_tag_selection == <<"a", "u", "t", "o", "_", "t", "a", "g", "_", "s", "e", "l", "e", "c", "t", "i", "o", "n">>
S_cull_selection == <<"c", "u", "l", "l", "_", "s", "e", "l", "e", "c", "t", "i", "o", "n">>
S_ai_sensitivity == <<"a", "i", "_", "s", "e", "n", "s", "i", "t", "i", "v", "i", "t", "y">>
S_source_file == <<"s", "o", "u", "r", "c", "e", "_", "f", "i", "l", "e">>
S_target == <<"t", "a", "r", "g", "e", "t">>
S_cloud == <<"c", "l", "o", "u", "d">>
S_target_remote == <<"t", "a", "r", "g", "e", "t", "_", "r", "e", "m", "o", "t", "e">>
S_remote_photos == <<"r", "e", "m", "o", "t", "e", ":", "p", "h", "o", "t", "o", "s">>
S_Normal == <<"N", "o", "r", "m", "a", "l">>

\* "/gui_request_" .. os.time() .. ".json"
gui_request_file(timestamp) == S_gui_request \o IntChars(timestamp) \o S_json
\* "/upload_" .. timestamp .. "_" .. image.id .. ".json"
unique_file(timestamp, id) ==
  S_upload \o IntChars(timestamp) \o <<"_">> \o IntChars(id) \o S_json

QueuePaths ==
  {gui_request_file(t) : t \in Seconds} \cup {unique_file(t, id) : t \in Seconds, id \in Exported}
NoRequest == [there |-> FALSE, bytes |-> <<>>]
\* io.open(path, "w"); f:write(text); f:close()
WriteRequest(q, path, text) == [q EXCEPT ![path] = [there |-> TRUE, bytes |-> text]]

\* the request table of a tool button
gui_req(tool, sensitivity) ==
  LTab(<< <<LStr(S_tool), LStr(tool)>>,
          <<LStr(S_args), LTab(<< <<LStr(S_ai_sensitivity), LStr(sensitivity)>> >>)>> >>)
\* the request table of the storage callback
upload_req(filename, remote, id) ==
  LTab(<< <<LStr(S_source_file), LStr(filename)>>,
          <<LStr(S_target), LStr(S_cloud)>>,
          <<LStr(S_target_remote), LStr(remote)>>,
          <<LStr(S_img_id), LInt(id)>> >>)

\* the texts of the label status_cloud
S_Idle == <<"I", "d", "l", "e">>
S_TagRequested == <<"A", "u", "t", "o", "-", "T", "a", "g", " ", "r", "e", "q", "u", "e", "s", "t", "e", "d", ".", ".", ".">>
S_CullRequested == <<"C", "u", "l", "l", "i", "n", "g", " ", "r", "e", "q", "u", "e", "s", "t", "e", "d", ".", ".", ".">>
S_Offline == <<"S", "e", "r", "v", "e", "r", " ", "O", "f", "f", "l", "i", "n", "e", " ", "(", "N", "o", " ", "S", "t", "a", "t", "u", "s", ")">>
S_message == <<"m", "e", "s", "s", "a", "g", "e">>
\* the directory of the mailbox, as the host would have to assign it
S_mcp == <<"m", "c", "p">>

\* io.open(path, "w"): the file is there and empty until the handle is closed
Truncate(q, path) == [q EXCEPT ![path] = [there |-> TRUE, bytes |-> <<>>]]
\* no request file is open
Closed == [open |-> FALSE, path |-> <<>>, text |-> <<>>, note |-> <<>>]
\* the handle f of a request file, the text json.encode made for it and the
\* text the label is given after f:close()
Handle(path, text, note) == [open |-> TRUE, path |-> path, text |-> text, note |-> note]
NoStatus == [there |-> FALSE, bytes |-> <<>>, at |-> 0]
\* what the last callback came to
Result(callback, result) == [callback |-> callback, result |-> result]

\* the Lua widgets a script holds
NumWidgets == 2
Widgets == 1..NumWidgets
\* the references to the box of the view the model follows
MaxRefs == 3

\* the view after init: the box is new, so its one reference is floating; it
\* is in no container and has no child.  placed gives, for each Lua widget,
\* the container it is in: "none", "box" (the box of the view) or "lib"
\* (another container)
ViewBuilt ==
  [packed |-> 0,          \* times the box is among the children of center
   refs |-> 1,            \* reference count of the box
   floating |-> TRUE,     \* the reference of the box is floating
   placed |-> [w \in Widgets |-> "none"],
   destroyed |-> {},      \* Lua widgets gtk_widget_destroy was called on
   bound |-> {},          \* Lua widgets dt_lua_widget_bind was called on
   entered |-> FALSE,     \* enter was called last, not leave
   lastOk |-> 0,          \* the widget of the last set_widget that returned 0
   up |-> TRUE,           \* the process is running
   call |-> Result("none", "none")]

VARIABLES
  dir,        \* path -> inode, 0 when the path does not exist
  data,       \* inode -> its bytes, and whose request or response they are
  db,         \* the library: image id -> rating
  pc,         \* watcher -> its position in process_commands
  own,        \* watcher -> the request its rename claimed in this tick
  src,        \* watcher -> the request whose payload it read in this tick
  resp,       \* watcher -> resp_str
  fd,         \* watcher -> the inode of its open handle f, 0 when closed
  pubd,       \* watcher -> renames to response.json it made in this tick
  nsub,       \* requests submitted so far
  sent,       \* request -> the payload submitted
  claimedBy,  \* request -> the watchers whose rename claimed it
  dispatched, \* request -> times its payload was decoded and dispatched
  calls,      \* request -> times a handler was invoked with it
  answers,    \* request -> times a response to it was renamed to response.json
  crashes,    \* crashes so far
  memo,       \* Outcomes, kept as worked out once; it never changes
  codec,      \* the value or text handed to the codec, and what it made of it
  clock,      \* os.time(), in seconds
  queue,      \* request path -> whether the file is there, and its bytes
  prefs,      \* the preferences cloud_remote and ai_sensitivity
  DT_MCP_DIR, \* the global of that name: nil unless the host assigned it
  status_cloud, \* the text of the label status_cloud
  gui_status, \* gui_status.json: whether it is there, its bytes, when written
  qf,         \* the request file a running callback holds open
  ran,       \* the callback that ran last and what it came to
  lastRead,   \* what the client read last at response.json
  view        \* the MCP view: its box, the children of the box, the Lua widgets

vars == <<dir, data, db, pc, own, src, resp, fd, pubd, nsub, sent, claimedBy,
          dispatched, calls, answers, crashes, memo, codec, clock, queue, prefs,
          DT_MCP_DIR, status_cloud, gui_status, qf, ran, lastRead, view>>

panelVars == <<clock, queue, prefs, DT_MCP_DIR, status_cloud, gui_status, qf, ran, view>>
watcherVars == <<pc, own, src, resp, fd, pubd>>
ghostVars == <<claimedBy, dispatched, calls, answers>>

\* the codec at rest, as it is in the mailbox specifications
CodecIdle ==
  [stage |-> "idle", from |-> "none", val |-> LNil, text |-> <<>>, out |-> Ok(LNil, 0)]

MailboxInit ==
  /\ dir = [p \in Paths |-> 0]
  /\ data = [i \in Inodes |-> NoFile]
  /\ db = [i \in Images |-> 0]
  /\ pc = [w \in Watchers |-> "idle"]
  /\ own = [w \in Watchers |-> 0]
  /\ src = [w \in Watchers |-> 0]
  /\ resp = [w \in Watchers |-> <<>>]
  /\ fd = [w \in Watchers |-> 0]
  /\ pubd = [w \in Watchers |-> 0]
  /\ nsub = 0
  /\ sent = [r \in Requests |-> <<>>]
  /\ claimedBy = [r \in Requests |-> {}]
  /\ dispatched = [r \in Requests |-> 0]
  /\ calls = [r \in Requests |-> 0]
  /\ answers = [r \in Requests |-> 0]
  /\ crashes = 0
  /\ memo = Outcomes
  /\ lastRead = [seen |-> FALSE, bytes |-> <<>>, req |-> 0]

\* the panel as create_ai_panel builds it, before any callback has run
PanelBuilt ==
  /\ clock = 0
  /\ queue = [path \in QueuePaths |-> NoRequest]
  /\ prefs = [cloud_remote |-> S_remote_photos, ai_sensitivity |-> S_Normal]
  /\ status_cloud = S_Idle
  /\ gui_status = NoStatus
  /\ qf = Closed
  /\ ran = Result("none", "none")
  /\ view = ViewBuilt

\* the script assigns MCP_DIR and never DT_MCP_DIR
Init == MailboxInit /\ PanelBuilt /\ DT_MCP_DIR = LNil /\ codec = CodecIdle

\* the inodes no path and no handle refers to
Unused(d, f) == {i \in Inodes : (\A p \in Paths : d[p] # i) /\ (\A w \in Watchers : f[w] # i)}
\* the file system forgets an inode once nothing refers to it
Reclaim(d, f, dt) == [i \in Inodes |-> IF i \in Unused(d, f) THEN NoFile ELSE dt[i]]
Fresh(d, f) == CHOOSE i \in Unused(d, f) : \A j \in Unused(d, f) : i <= j

\* a move made of a copy whose source is left in place
RenameCopy(d, from, to) == [d EXCEPT ![to] = d[from]]
\* os.rename(from, to) succeeds exactly when from exists; it replaces to
RenameOk(d, from) == d[from] # 0
Rename(d, from, to) == [d EXCEPT ![to] = d[from], ![from] = 0]
\* os.remove(path)
Remove(d, path) == [d EXCEPT ![path] = 0]

\* read_file(path): [found, bytes, req]; found is FALSE for the nil of a path
\* that cannot be opened
read_file(d, dt, path) ==
  IF d[path] = 0 THEN [found |-> FALSE, bytes |-> <<>>, req |-> 0]
  ELSE [found |-> TRUE, bytes |-> dt[d[path]].bytes, req |-> dt[d[path]].req]

\* not content or content == ""
NoContent(content) == IF ~content.found THEN TRUE ELSE content.bytes = <<>>

\* the bytes of a file after content is written at its start
Overwrite(old, content) == content \o Sub(old, Len(content) + 1, Len(old))

\* a timer that is not called again after an error left its callback
RestingUnlessRaised == {"idle"}
\* a tick is over: process_commands returned ("idle") or an error left it
\* ("raised"); its locals are gone, and the timer calls it again
Resting == {"idle", "raised"}
EndTick(w, how) ==
  /\ pc' = [pc EXCEPT ![w] = how]
  /\ own' = [own EXCEPT ![w] = 0]
  /\ src' = [src EXCEPT ![w] = 0]
  /\ resp' = [resp EXCEPT ![w] = <<>>]
  /\ pubd' = [pubd EXCEPT ![w] = 0]

(***************************************************************************)
(* process_commands, one action for each of its file operations.           *)
(***************************************************************************)
\* io.open(CMD_FILE, "r") finds no command: the tick is over
NoCommand(w) ==
  /\ pc[w] \in Resting
  /\ dir[CMD_FILE] = 0
  /\ EndTick(w, "idle")
  /\ UNCHANGED <<dir, data, db, fd, nsub, sent, memo, codec, panelVars, ghostVars, crashes, lastRead>>

\* io.open(CMD_FILE, "r") finds the command file
Poll(w) ==
  /\ pc[w] \in Resting
  /\ dir[CMD_FILE] # 0
  /\ pc' = [pc EXCEPT ![w] = "opened"]
  /\ UNCHANGED <<dir, data, db, own, src, resp, fd, pubd, nsub, sent, memo, codec, panelVars,
                 ghostVars, crashes, lastRead>>

\* os.rename(CMD_FILE, PROC_FILE) succeeds: the claim
Claim(w) ==
  /\ pc[w] = "opened"
  /\ RenameOk(dir, CMD_FILE)
  /\ LET r == data[dir[CMD_FILE]].req
         d == Rename(dir, CMD_FILE, PROC_FILE)
     IN /\ dir' = d
        /\ data' = Reclaim(d, fd, data)
        /\ own' = [own EXCEPT ![w] = r]
        /\ claimedBy' = [claimedBy EXCEPT ![r] = @ \cup {w}]
  /\ pc' = [pc EXCEPT ![w] = "claimed"]
  /\ UNCHANGED <<db, src, resp, fd, pubd, nsub, sent, memo, codec, panelVars, dispatched, calls,
                 answers, crashes, lastRead>>

\* a failed rename taken as fatal: the watcher polls no more
ClaimLostFatal(w) ==
  /\ pc[w] = "opened"
  /\ ~RenameOk(dir, CMD_FILE)
  /\ EndTick(w, "crashed")
  /\ UNCHANGED <<dir, data, db, fd, nsub, sent, memo, codec, panelVars, ghostVars, crashes, lastRead>>

\* a failed rename whose result is not looked at: the tick goes on
ClaimIgnored(w) ==
  /\ pc[w] = "opened"
  /\ ~RenameOk(dir, CMD_FILE)
  /\ pc' = [pc EXCEPT ![w] = "claimed"]
  /\ UNCHANGED <<dir, data, db, own, src, resp, fd, pubd, nsub, sent, memo, codec, panelVars,
                 ghostVars, crashes, lastRead>>

\* os.rename(CMD_FILE, PROC_FILE) fails: logged, retried on the next tick
ClaimLost(w) ==
  /\ pc[w] = "opened"
  /\ ~RenameOk(dir, CMD_FILE)
  /\ EndTick(w, "idle")
  /\ UNCHANGED <<dir, data, db, fd, nsub, sent, memo, codec, panelVars, ghostVars, crashes, lastRead>>

\* read_file(PROC_FILE) gives nothing: the branch that removes PROC_FILE
ReadEmpty(w) ==
  /\ pc[w] = "claimed"
  /\ NoContent(read_file(dir, data, PROC_FILE))
  /\ pc' = [pc EXCEPT ![w] = "drop"]
  /\ UNCHANGED <<dir, data, db, own, src, resp, fd, pubd, nsub, sent, memo, codec, panelVars,
                 ghostVars, crashes, lastRead>>

\* os.remove(PROC_FILE) and return, of the branch of an empty payload
Drop(w) ==
  /\ pc[w] = "drop"
  /\ dir' = Remove(dir, PROC_FILE)
  /\ data' = Reclaim(dir', fd, data)
  /\ EndTick(w, "idle")
  /\ UNCHANGED <<db, fd, nsub, sent, memo, codec, panelVars, ghostVars, crashes, lastRead>>

\* read_file(PROC_FILE) gives a payload: decode, dispatch, encode
ReadDispatch(w) ==
  /\ pc[w] = "claimed"
  /\ ~NoContent(read_file(dir, data, PROC_FILE))
  /\ LET file == read_file(dir, data, PROC_FILE)
         res == memo[file.bytes][db]
     IN /\ db' = res.db
        /\ dispatched' = [dispatched EXCEPT ![file.req] = @ + 1]
        /\ calls' = [calls EXCEPT ![file.req] = IF res.called # <<>> THEN @ + 1 ELSE @]
        /\ IF res.raised
             THEN \* the error leaves process_commands: nothing more is done
                  EndTick(w, "raised")
             ELSE /\ pc' = [pc EXCEPT ![w] = "wopen"]
                  /\ src' = [src EXCEPT ![w] = file.req]
                  /\ resp' = [resp EXCEPT ![w] = res.resp_str]
                  /\ UNCHANGED <<own, pubd>>
  /\ UNCHANGED <<dir, data, fd, nsub, sent, memo, codec, panelVars, claimedBy, answers, crashes, lastRead>>

\* write_file: io.open(RESP_TMP_FILE, "w") truncates the file or creates it
OpenTmp(w) ==
  /\ pc[w] = "wopen"
  /\ LET i == IF dir[RESP_TMP_FILE] # 0 THEN dir[RESP_TMP_FILE] ELSE Fresh(dir, fd)
     IN /\ dir' = [dir EXCEPT ![RESP_TMP_FILE] = i]
        /\ fd' = [fd EXCEPT ![w] = i]
        /\ data' = [data EXCEPT ![i] = NoFile]
  /\ pc' = [pc EXCEPT ![w] = "wwrite"]
  /\ UNCHANGED <<db, own, src, resp, pubd, nsub, sent, memo, codec, panelVars, ghostVars, crashes,
                 lastRead>>

\* write_file: io.open(RESP_TMP_FILE, "w") gives nil and write_file returns;
\* process_commands goes on to the rename
OpenTmpFails(w) ==
  /\ pc[w] = "wopen"
  /\ pc' = [pc EXCEPT ![w] = "publish"]
  /\ UNCHANGED <<dir, data, db, own, src, resp, fd, pubd, nsub, sent, memo, codec, panelVars,
                 ghostVars, crashes, lastRead>>

\* write_file: f:write(content) and f:close() put the text at the start of the
\* file the handle refers to
WriteTmp(w) ==
  /\ pc[w] = "wwrite"
  /\ LET i == fd[w]
         f == [fd EXCEPT ![w] = 0]
         written == [data EXCEPT ![i] = [bytes |-> Overwrite(data[i].bytes, resp[w]),
                                         req |-> src[w], role |-> "response"]]
     IN /\ fd' = f
        /\ data' = Reclaim(dir, f, written)
  /\ pc' = [pc EXCEPT ![w] = "publish"]
  /\ UNCHANGED <<dir, db, own, src, resp, pubd, nsub, sent, memo, codec, panelVars, ghostVars,
                 crashes, lastRead>>

\* os.rename(RESP_TMP_FILE, RESP_FILE); its result is not looked at
Publish(w) ==
  /\ pc[w] = "publish"
  /\ IF RenameOk(dir, RESP_TMP_FILE)
       THEN LET r == data[dir[RESP_TMP_FILE]].req
                d == Rename(dir, RESP_TMP_FILE, RESP_FILE)
            IN /\ dir' = d
               /\ data' = Reclaim(d, fd, data)
               /\ pubd' = [pubd EXCEPT ![w] = @ + 1]
               /\ answers' = [q \in Requests |-> answers[q] + IF q = r THEN 1 ELSE 0]
       ELSE UNCHANGED <<dir, data, pubd, answers>>
  /\ pc' = [pc EXCEPT ![w] = "remove"]
  /\ UNCHANGED <<db, own, src, resp, fd, nsub, sent, memo, codec, panelVars, claimedBy, dispatched,
                 calls, crashes, lastRead>>

\* os.remove(PROC_FILE): the tick is over
RemoveProc(w) ==
  /\ pc[w] = "remove"
  /\ dir' = Remove(dir, PROC_FILE)
  /\ data' = Reclaim(dir', fd, data)
  /\ EndTick(w, "idle")
  /\ UNCHANGED <<db, fd, nsub, sent, memo, codec, panelVars, ghostVars, crashes, lastRead>>

\* the host process of a watcher dies inside a tick: its locals and its open
\* handle are gone, the files stay as they are
Crash(w) ==
  /\ pc[w] \notin Resting \cup {"crashed"}
  /\ crashes < MaxCrashes
  /\ crashes' = crashes + 1
  /\ EndTick(w, "crashed")
  /\ fd' = [fd EXCEPT ![w] = 0]
  /\ data' = Reclaim(dir, fd', data)
  /\ UNCHANGED <<dir, db, nsub, sent, memo, codec, panelVars, ghostVars, lastRead>>

\* the script is loaded again: it registers the poller and looks at no file
Restart(w) ==
  /\ pc[w] = "crashed"
  /\ pc' = [pc EXCEPT ![w] = "idle"]
  /\ UNCHANGED <<dir, data, db, own, src, resp, fd, pubd, nsub, sent, memo, codec, panelVars,
                 ghostVars, crashes, lastRead>>

(***************************************************************************)
(* The client of the bridge.                                               *)
(***************************************************************************)
\* a request is put, complete, into the empty command slot
Submit(p) ==
  /\ nsub < MaxRequests
  /\ dir[CMD_FILE] = 0
  /\ LET i == Fresh(dir, fd)
     IN /\ dir' = [dir EXCEPT ![CMD_FILE] = i]
        /\ data' = [data EXCEPT ![i] = [bytes |-> p, req |-> nsub + 1, role |-> "request"]]
  /\ nsub' = nsub + 1
  /\ sent' = [sent EXCEPT ![nsub + 1] = p]
  /\ UNCHANGED <<db, watcherVars, ghostVars, crashes, memo, codec, panelVars, lastRead>>

\* the response is read and deleted
Consume ==
  /\ dir[RESP_FILE] # 0
  /\ lastRead' = [seen |-> TRUE, bytes |-> data[dir[RESP_FILE]].bytes,
                  req |-> data[dir[RESP_FILE]].req]
  /\ dir' = Remove(dir, RESP_FILE)
  /\ data' = Reclaim(dir', fd, data)
  /\ UNCHANGED <<db, watcherVars, nsub, sent, memo, codec, panelVars, ghostVars, crashes>>

Tick(w) ==
  \/ NoCommand(w) \/ Poll(w) \/ Claim(w) \/ ClaimLost(w)
  \/ ReadEmpty(w) \/ Drop(w) \/ ReadDispatch(w)
  \/ OpenTmp(w) \/ WriteTmp(w) \/ Publish(w) \/ RemoveProc(w)

\* several watchers over one directory, and the client
Next ==
  \/ \E w \in Watchers : Tick(w)
  \/ \E p \in Payloads : Submit(p)
  \/ Consume

Spec == Init /\ [][Next]_vars

\* watchers that may crash inside a tick and are started again, and the
\* client; the timer keeps calling process_commands and the host is restarted
CrashNext ==
  \/ \E w \in Watchers : Tick(w)
  \/ \E w \in Watchers : Crash(w)
  \/ \E w \in Watchers : Restart(w)
  \/ \E p \in Payloads : Submit(p)
  \/ Consume

CrashSpec ==
  /\ Init /\ [][CrashNext]_vars
  /\ \A w \in Watchers : WF_vars(Tick(w)) /\ WF_vars(Restart(w))

\* one watcher over the directory, and the client: the rename of the only
\* watcher cannot fail, the timer keeps firing and the client keeps reading
Solo == CHOOSE w \in Watchers : \A v \in Watchers : w <= v
SoloTick ==
  \/ NoCommand(Solo) \/ Poll(Solo) \/ Claim(Solo)
  \/ ReadEmpty(Solo) \/ Drop(Solo) \/ ReadDispatch(Solo)
  \/ OpenTmp(Solo) \/ WriteTmp(Solo) \/ Publish(Solo) \/ RemoveProc(Solo)
SoloNext ==
  \/ SoloTick
  \/ \E p \in Payloads : Submit(p)
  \/ Consume

SoloSpec ==
  Init /\ [][SoloNext]_vars /\ WF_vars(SoloTick) /\ WF_vars(Consume)

\* one watcher that may crash and be started again, in a directory where
\* opening the temporary file for writing can fail
FaultNext ==
  \/ SoloTick
  \/ OpenTmpFails(Solo)
  \/ Crash(Solo)
  \/ Restart(Solo)
  \/ \E p \in Payloads : Submit(p)
  \/ Consume

FaultSpec == Init /\ [][FaultNext]_vars

(***************************************************************************)
(* The argument parsing of the legacy bridge: check_command reads          *)
(* CMD_NAME|JSON_ARGS and collects the arguments with a Lua pattern.       *)
(***************************************************************************)
Letters ==
  {"a", "b", "c", "d", "e", "f", "g", "h", "i", "j", "k", "l", "m",
   "n", "o", "p", "q", "r", "s", "t", "u", "v", "w", "x", "y", "z",
   "A", "B", "C", "D", "E", "F", "G", "H", "I", "J", "K", "L", "M",
   "N", "O", "P", "Q", "R", "S", "T", "U", "V", "W", "X", "Y", "Z"}
\* the class %w of Lua patterns
Alnum == Letters \cup Digits
\* the complement class [^",}]
ArgStop == {"\"", ",", "}"}

RECURSIVE AlnumEnd(_, _)
\* the position after the longest run of %w that starts at pos
AlnumEnd(str, pos) ==
  IF pos <= Len(str) /\ str[pos] \in Alnum THEN AlnumEnd(str, pos + 1) ELSE pos

RECURSIVE ValueEnd(_, _)
\* the position after the longest run of [^",}] that starts at pos
ValueEnd(str, pos) ==
  IF pos <= Len(str) /\ str[pos] \notin ArgStop THEN ValueEnd(str, pos + 1) ELSE pos

RECURSIVE TrimEnd(_, _)
\* the position of the last character of str that is not a space, from pos down
TrimEnd(str, pos) ==
  IF pos >= 1 /\ str[pos] \in Space THEN TrimEnd(str, pos - 1) ELSE pos

\* tonumber(v) of a string, for decimal numerals: spaces around the numeral
\* are allowed, anything else left over makes it nil
tonumber(v) ==
  LET first == SkipSpace(v, 1)
      last == TrimEnd(v, Len(v))
      t == ToNumber(v, first)
  IN IF t.ok /\ t.pos = last + 1 THEN t.val ELSE LNil

\* one match of "(%w+)":%s*"?([^",}]+)"? that starts at init
match_arg(str, init) ==
  LET k0 == init + 1
      k1 == AlnumEnd(str, k0)
      head == At(str, init) = "\"" /\ k1 > k0 /\ At(str, k1) = "\"" /\ At(str, k1 + 1) = ":"
      s0 == k1 + 2
      s1 == SkipSpace(str, s0)
      v0 == IF At(str, s1) = "\"" THEN s1 + 1 ELSE s1
      v1 == ValueEnd(str, v0)
      \* when no value follows the spaces, the last space is given back
      b0 == s1 - 1
      b1 == ValueEnd(str, b0)
      from == IF v1 > v0 THEN v0 ELSE b0
      to == IF v1 > v0 THEN v1 ELSE b1
  IN [ok |-> head /\ (v1 > v0 \/ s1 > s0),
      k |-> Sub(str, k0, k1 - 1),
      v |-> Sub(str, from, to - 1),
      e |-> IF At(str, to) = "\"" THEN to + 1 ELSE to]

RECURSIVE parse_args(_, _, _)
\* for k,v in json_args:gmatch(...) do args[k] = tonumber(v) or v end
parse_args(json_args, init, args) ==
  IF init > Len(json_args) THEN args
  ELSE LET m == match_arg(json_args, init)
       IN IF ~m.ok THEN parse_args(json_args, init + 1, args)
          ELSE parse_args(json_args, m.e,
                 RawSet(args, LStr(m.k),
                        IF IsNil(tonumber(m.v)) THEN LStr(m.v) ELSE tonumber(m.v)))

(***************************************************************************)
(* The codec on its own: an envelope value is encoded and the text decoded *)
(* again, or a text is decoded.                                            *)
(***************************************************************************)
MaxStrLen == 2

\* letters, digits, the delimiter set and control characters
StrChars == {"a", "1", "\"", "\\", "/", "\n", "\t"}
Strings == UNION {[1..n -> StrChars] : n \in 0..MaxStrLen}
NumericString == <<"1", "2", "3">>
Numbers ==
  {LInt(0), LInt(7), LInt(0 - 3), LInt(123),
   LNumber(15, 0 - 1, TRUE), LNumber(2, 0, TRUE), LNumber(0 - 25, 0 - 2, TRUE)}
Scalars == {LStr(str) : str \in Strings \cup {NumericString}} \cup Numbers \cup {LTrue, LFalse}
\* the values put inside sequences and mappings
Items == {LStr(<<"a">>), LStr(<<"\n">>), LStr(NumericString), LInt(123), LFalse}
Array(items) == LTab([i \in 1..Len(items) |-> <<LInt(i), items[i]>>])
Arrays == {Array(items) : items \in UNION {[1..n -> Items] : n \in 1..2}}
Keys == {<<"k">>, <<"i", "d">>}
Mappings ==
  {LTab(<<>>)}
  \cup {LTab(<< <<LStr(key), val>> >>) : key \in Keys, val \in Items \cup Arrays}
  \cup {LTab(<< <<LStr(<<"k">>), val>>, <<LStr(<<"i", "d">>), LTab(<< <<LStr(<<"k">>), inner>> >>)>> >>) :
           val \in Items, inner \in Items}
\* the representable envelope values of the model
Envelopes == Scalars \cup {LNil} \cup Arrays \cup Mappings

ValueInput(val) ==
  [stage |-> "value", from |-> "value", val |-> val, text |-> <<>>, out |-> Ok(LNil, 0)]

\* well-formed JSON documents
Documents ==
  {<<"n", "u", "l", "l">>,
   <<"t", "r", "u", "e">>,
   <<"f", "a", "l", "s", "e">>,
   <<"0">>,
   <<"-", "1", "2">>,
   <<"1", ".", "5">>,
   <<"1", "e", "3">>,
   <<"\"", "a", "\"">>,
   <<"\"", "\"">>,
   <<"\"", "a", "\\", "\"", "b", "\"">>,
   <<"{", "}">>,
   <<"[", "]">>,
   <<"{", "\"", "a", "\"", ":", "n", "u", "l", "l", "}">>,
   <<"[", "n", "u", "l", "l", "]">>,
   <<"[", "f", "a", "l", "s", "e", "]">>,
   <<"[", "1", ",", "n", "u", "l", "l", "]">>,
   <<"{", "\"", "a", "\"", ":", "[", "1", ",", "2", "]", ",", "\"", "b", "\"", ":", "{", "\"", "c", "\"", ":", "\"", "d", "\"", "}", "}">>,
   <<" ", "[", " ", "1", " ", ",", " ", "2", " ", "]", " ">>,
   <<"{", "\"", "a", "\"", " ", ":", " ", "1", "}">>,
   <<"[", "[", "]", "]">>,
   <<"\"", "1", "2", "3", "\"">>,
   <<"1", "2", "3">>}

\* truncated or corrupted payloads
Corrupted ==
  {<<>>,
   <<"{", "\"", "c", "m", "d", "\"", ":", "\"", "s", "e", "t", "_", "r", "a">>,
   <<"{", "\"", "a", "\"", ":", "1", "}", " ", "x">>,
   <<"{", "\"", "a", "\"", ":", "1", " ", "\"", "b", "\"", ":", "2", "}">>,
   <<"[", "1", " ", "2", "]">>,
   <<"{", "\"", "a", "\"">>,
   <<"{", "\"", "a", "\"", ":">>,
   <<"@">>,
   <<"-">>,
   <<"{", "\"", "a", "\"", ":", "1">>,
   <<"t", "r", "u">>,
   <<"[", "1", ",">>,
   <<"{", "\"", "a", "\"", ":", "1", "}", "}">>,
   <<"\"", "a", "\\">>}

TextInput(from, text) ==
  [stage |-> "text", from |-> from, val |-> LNil, text |-> text, out |-> Ok(LNil, 0)]

\* the argument names of the legacy commands and the values sent for them
ArgNames == {S_rating, <<"t", "a", "g", "_", "n", "a", "m", "e">>, <<"s", "t", "y", "l", "e">>}
ArgValues ==
  {LStr(<<"a">>), LStr(<<"a", "1">>), LStr(<<"1">>), LStr(NumericString),
   LInt(5), LInt(123), LNumber(15, 0 - 1, TRUE)}
\* {"name": value} as the client writes it after CMD_NAME|
ArgsText(name, val) ==
  <<"{", "\"">> \o name \o <<"\"", ":", " ">>
  \o (IF val.k = "string" THEN <<"\"">> \o val.v \o <<"\"">> ELSE NumberToString(val.v))
  \o <<"}">>
ArgsInput(name, val) ==
  [stage |-> "args", from |-> "args", val |-> LTab(<< <<LStr(name), val>> >>),
   text |-> ArgsText(name, val), out |-> Ok(LNil, 0)]

CodecInit ==
  /\ MailboxInit /\ PanelBuilt /\ DT_MCP_DIR = LNil
  /\ codec \in {ValueInput(val) : val \in Envelopes}
               \cup {TextInput("document", text) : text \in Documents}
               \cup {TextInput("corrupt", text) : text \in Corrupted}
               \cup {ArgsInput(name, val) : name \in ArgNames, val \in ArgValues}

mailboxVars ==
  <<dir, data, db, pc, own, src, resp, fd, pubd, nsub, sent, claimedBy,
    dispatched, calls, answers, crashes, memo, lastRead>>

\* json.encode(val)
Encode ==
  /\ codec.stage = "value"
  /\ LET enc == json_encode(codec.val, FALSE)
     IN codec' = IF enc.ok THEN [codec EXCEPT !.stage = "text", !.text = enc.val]
                 ELSE [codec EXCEPT !.stage = "raised"]
  /\ UNCHANGED <<mailboxVars, panelVars>>

\* pcall(json.decode, text)
Decode ==
  /\ codec.stage = "text"
  /\ codec' = [codec EXCEPT !.stage = "decoded", !.out = json_decode(codec.text, 1, "")]
  /\ UNCHANGED <<mailboxVars, panelVars>>

\* the argument loop of the legacy check_command
LegacyArgs ==
  /\ codec.stage = "args"
  /\ codec' = [codec EXCEPT !.stage = "parsed",
                            !.out = Ok(parse_args(codec.text, 1, LTab(<<>>)), 0)]
  /\ UNCHANGED <<mailboxVars, panelVars>>

CodecNext == Encode \/ Decode \/ LegacyArgs

CodecSpec == CodecInit /\ [][CodecNext]_vars

(***************************************************************************)
(* The legacy bridge: check_command reads cmd.json, clears it in place,    *)
(* runs the command and writes response.json in place.                     *)
(***************************************************************************)
\* CMD_NAME|JSON_ARGS as the client writes it: an image of the library, an
\* image that is not there, and a text without the bar
L_ok == <<"s", "e", "t", "_", "r", "a", "t", "i", "n", "g", "|", "{", "\"", "i", "m", "g", "_", "i", "d", "\"", ":", " ", "4", "2", ",", " ", "\"", "r", "a", "t", "i", "n", "g", "\"", ":", " ", "5", "}">>
L_missing == <<"s", "e", "t", "_", "r", "a", "t", "i", "n", "g", "|", "{", "\"", "i", "m", "g", "_", "i", "d", "\"", ":", " ", "9", "9", "9", "9", ",", " ", "\"", "r", "a", "t", "i", "n", "g", "\"", ":", " ", "5", "}">>
LegacyPayloads == {L_ok, L_missing, S_set_rating}

\* the times a command whose clearing failed is followed through the model
MaxReruns == 1

RECURSIVE BarAt(_, _)
\* the position of the first "|" of content from pos on, 0 when there is none
BarAt(content, pos) ==
  IF pos > Len(content) THEN 0
  ELSE IF content[pos] = "|" THEN pos ELSE BarAt(content, pos + 1)

\* pcall(commands[cmd_name], args) for CMD_NAME|JSON_ARGS; set_rating has the
\* body it has in the main bridge, a name that is not registered calls nothing
LegacyCall(content, library) ==
  LET bar == BarAt(content, 1)
      cmd_name == Sub(content, 1, bar - 1)
      args == parse_args(Sub(content, bar + 1, Len(content)), 1, LTab(<<>>))
  IN IF cmd_name = S_set_rating
       THEN [called |-> TRUE, res |-> set_rating(args, library)]
       ELSE [called |-> FALSE,
             res |-> [ok |-> FALSE, val |-> LStr(S_UnknownCommand \o cmd_name), db |-> library]]

\* resp_str, put together by concatenation around tostring(result)
LegacyResponse(res) ==
  IF res.ok
    THEN <<"{", "\"", "s", "t", "a", "t", "u", "s", "\"", ":", " ", "\"", "o", "k", "\"", ",", " ", "\"", "d", "a", "t", "a", "\"", ":", " ", "\"">>
         \o tostring(res.val) \o <<"\"", "}">>
    ELSE <<"{", "\"", "s", "t", "a", "t", "u", "s", "\"", ":", " ", "\"", "e", "r", "r", "o", "r", "\"", ",", " ", "\"", "e", "r", "r", "o", "r", "\"", ":", " ", "\"">>
         \o tostring(res.val) \o <<"\"", "}">>

\* write_file(path, content): io.open(path, "w") truncates or creates the
\* file, the text is written and the handle closed
LegacyWrite(d, dt, path, content, r, what) ==
  LET i == IF d[path] # 0 THEN d[path] ELSE Fresh(d, fd)
  IN [dir |-> [d EXCEPT ![path] = i],
      data |-> [dt EXCEPT ![i] = [bytes |-> content, req |-> r, role |-> what]]]

\* the client writes a command when cmd.json is absent or has been cleared
LegacySubmit(p) ==
  /\ nsub < MaxRequests
  /\ NoContent(read_file(dir, data, CMD_FILE))
  /\ dir' = LegacyWrite(dir, data, CMD_FILE, p, nsub + 1, "request").dir
  /\ data' = LegacyWrite(dir, data, CMD_FILE, p, nsub + 1, "request").data
  /\ nsub' = nsub + 1
  /\ sent' = [sent EXCEPT ![nsub + 1] = p]
  /\ UNCHANGED <<db, watcherVars, ghostVars, crashes, memo, codec, panelVars, lastRead>>

\* local content = read_file(CMD_FILE); nothing to do when it is nil or ""
LegacyRead(w) ==
  /\ pc[w] = "idle"
  /\ IF NoContent(read_file(dir, data, CMD_FILE))
       THEN UNCHANGED <<pc, src, resp>>
       ELSE /\ pc' = [pc EXCEPT ![w] = "lread"]
            /\ src' = [src EXCEPT ![w] = read_file(dir, data, CMD_FILE).req]
            /\ resp' = [resp EXCEPT ![w] = read_file(dir, data, CMD_FILE).bytes]
  /\ UNCHANGED <<dir, data, db, own, fd, pubd, nsub, sent, memo, codec, panelVars, ghostVars,
                 crashes, lastRead>>

\* write_file(CMD_FILE, ""): when io.open gives nil write_file returns and
\* the file is left as it is
LegacyClear(w) ==
  \E writable \in BOOLEAN :
     /\ pc[w] = "lread"
     /\ writable \/ calls[src[w]] < MaxReruns
     /\ dir' = IF writable THEN LegacyWrite(dir, data, CMD_FILE, <<>>, 0, "none").dir ELSE dir
     /\ data' = IF writable THEN LegacyWrite(dir, data, CMD_FILE, <<>>, 0, "none").data ELSE data
     /\ pc' = [pc EXCEPT ![w] = "lrun"]
     /\ UNCHANGED <<db, own, src, resp, fd, pubd, nsub, sent, memo, codec, panelVars, ghostVars,
                    crashes, lastRead>>

\* the rest of check_command: it returns when content has no bar, else the
\* command is called under pcall and the response written to response.json
LegacyRun(w) ==
  /\ pc[w] = "lrun"
  /\ IF BarAt(resp[w], 1) = 0
       THEN UNCHANGED <<dir, data, db, calls, answers>>
       ELSE /\ db' = LegacyCall(resp[w], db).res.db
            /\ calls' = [calls EXCEPT ![src[w]] =
                           IF LegacyCall(resp[w], db).called THEN @ + 1 ELSE @]
            /\ answers' = [answers EXCEPT ![src[w]] = @ + 1]
            /\ dir' = LegacyWrite(dir, data, RESP_FILE,
                                  LegacyResponse(LegacyCall(resp[w], db).res), src[w],
                                  "response").dir
            /\ data' = LegacyWrite(dir, data, RESP_FILE,
                                   LegacyResponse(LegacyCall(resp[w], db).res), src[w],
                                   "response").data
  /\ EndTick(w, "idle")
  /\ UNCHANGED <<fd, nsub, sent, memo, codec, panelVars, claimedBy, dispatched, crashes, lastRead>>

LegacyTick(w) == LegacyRead(w) \/ LegacyClear(w) \/ LegacyRun(w)

\* pollers of the legacy script over one directory, and the client
LegacyNext ==
  \/ \E w \in Watchers : LegacyTick(w)
  \/ \E p \in LegacyPayloads : LegacySubmit(p)
  \/ Consume

LegacySpec == Init /\ [][LegacyNext]_vars

(***************************************************************************)
(* The panel and the storage module on their own: clicks and exports file  *)
(* requests while the clock advances.                                      *)
(***************************************************************************)
Remotes == {S_remote_photos}
\* what the user left in the entry: the default, or any text
Sensitivities == {S_Normal, <<"H", "i", "g", "h">>}
Filenames == {<<"a", ".", "j", "p", "g">>, <<"a", ".", "p", "n", "g">>}

\* how far the callback of a tool button gets: no image is selected, the
\* concatenation with DT_MCP_DIR raises, io.open gives nil, or the file is open
Attempt(selected, writable) ==
  IF selected = 0 THEN "no selection"
  ELSE IF IsNil(DT_MCP_DIR) THEN "raised"
  ELSE IF ~writable THEN "open failed"
  ELSE "opened"

\* the button is clicked with the entries as the user left them
mcp_btn_tag ==
  \E remote \in Remotes, sensitivity \in Sensitivities, selected \in 0..1, writable \in BOOLEAN :
     /\ ~qf.open
     /\ prefs' = [cloud_remote |-> remote, ai_sensitivity |-> sensitivity]
     /\ ran' = Result("mcp_btn_tag", Attempt(selected, writable))
     /\ queue' = IF Attempt(selected, writable) = "opened"
                   THEN Truncate(queue, gui_request_file(clock)) ELSE queue
     /\ qf' = IF Attempt(selected, writable) = "opened"
                THEN Handle(gui_request_file(clock),
                            json_encode(gui_req(S_auto_tag_selection, sensitivity), FALSE).val,
                            S_TagRequested)
                ELSE qf
     /\ UNCHANGED <<mailboxVars, codec, view, clock, DT_MCP_DIR, status_cloud, gui_status>>

mcp_btn_cull ==
  \E remote \in Remotes, sensitivity \in Sensitivities, selected \in 0..1, writable \in BOOLEAN :
     /\ ~qf.open
     /\ prefs' = [cloud_remote |-> remote, ai_sensitivity |-> sensitivity]
     /\ ran' = Result("mcp_btn_cull", Attempt(selected, writable))
     /\ queue' = IF Attempt(selected, writable) = "opened"
                   THEN Truncate(queue, gui_request_file(clock)) ELSE queue
     /\ qf' = IF Attempt(selected, writable) = "opened"
                THEN Handle(gui_request_file(clock),
                            json_encode(gui_req(S_cull_selection, sensitivity), FALSE).val,
                            S_CullRequested)
                ELSE qf
     /\ UNCHANGED <<mailboxVars, codec, view, clock, DT_MCP_DIR, status_cloud, gui_status>>

\* the store callback of mcp_cloud, called for one exported image; it raises
\* at line 336 when DT_MCP_DIR is nil, and only logs when io.open gives nil
mcp_cloud ==
  \E id \in Exported, filename \in Filenames, writable \in BOOLEAN :
     /\ ~qf.open
     /\ ran' = Result("mcp_cloud", Attempt(1, writable))
     /\ queue' = IF Attempt(1, writable) = "opened"
                   THEN Truncate(queue, unique_file(clock, id)) ELSE queue
     /\ qf' = IF Attempt(1, writable) = "opened"
                THEN Handle(unique_file(clock, id),
                            json_encode(upload_req(filename, prefs.cloud_remote, id), FALSE).val,
                            <<>>)
                ELSE qf
     /\ UNCHANGED <<mailboxVars, codec, view, clock, prefs, DT_MCP_DIR, status_cloud, gui_status>>

\* f:write(json.encode(req)); f:close(); and the label of a tool button
WriteClose ==
  /\ qf.open
  /\ queue' = WriteRequest(queue, qf.path, qf.text)
  /\ status_cloud' = IF qf.note = <<>> THEN status_cloud ELSE qf.note
  /\ qf' = Closed
  /\ ran' = Result(ran.callback, "written")
  /\ UNCHANGED <<mailboxVars, codec, view, clock, prefs, DT_MCP_DIR, gui_status>>

\* a second passes
Second ==
  /\ clock < MaxSeconds
  /\ clock' = clock + 1
  /\ UNCHANGED <<mailboxVars, codec, view, queue, prefs, DT_MCP_DIR, status_cloud, gui_status, qf, ran>>

\* the host's Lua state may or may not hold a global DT_MCP_DIR
PanelInit ==
  /\ MailboxInit /\ PanelBuilt /\ codec = CodecIdle
  /\ DT_MCP_DIR \in {LNil, LStr(S_mcp)}

PanelNext == mcp_btn_tag \/ mcp_btn_cull \/ mcp_cloud \/ WriteClose \/ Second

PanelSpec == PanelInit /\ [][PanelNext]_vars

(***************************************************************************)
(* The status file: the backend writes gui_status.json and check_status   *)
(* shows its message in the label.                                         *)
(***************************************************************************)
\* a status of the backend, one caught half written, an empty file, an
\* object without message, and a text that is no JSON
StatusTexts ==
  {<<"{", "\"", "m", "e", "s", "s", "a", "g", "e", "\"", ":", "\"", "D", "o", "n", "e", "\"", "}">>,
   <<"{", "\"", "m", "e", "s", "s">>,
   <<>>,
   <<"{", "\"", "s", "t", "a", "t", "e", "\"", ":", "\"", "i", "d", "l", "e", "\"", "}">>,
   <<"i", "d", "l", "e">>}
\* the age from which on a status counts as stale
StalenessWindow == 1

\* the backend writes its status
BackendStatus ==
  \E text \in StatusTexts :
     /\ gui_status' = [there |-> TRUE, bytes |-> text, at |-> clock]
     /\ UNCHANGED <<mailboxVars, codec, view, clock, queue, prefs, DT_MCP_DIR, status_cloud, qf, ran>>

\* status.message of the decoded status, indexed at line 473
StatusMessage(status) ==
  IF ~status.ok THEN Result("check_status", "raised")
  ELSE IF ~Truthy(status.val) THEN Result("check_status", "kept")
  ELSE IF ~Index(status.val, S_message, 473).ok THEN Result("check_status", "raised")
  ELSE IF Truthy(Index(status.val, S_message, 473).val) THEN Result("check_status", "shown")
  ELSE Result("check_status", "kept")

\* check_status: the concatenation with DT_MCP_DIR raises when it is nil, a
\* missing file gives the offline text, and json.decode is not protected
check_status ==
  IF IsNil(DT_MCP_DIR) THEN Result("check_status", "raised")
  ELSE IF ~gui_status.there THEN Result("check_status", "offline")
  ELSE StatusMessage(json_decode(gui_status.bytes, 1, ""))

\* the Refresh Status button
mcp_btn_refresh ==
  /\ ~qf.open
  /\ ran' = check_status
  /\ status_cloud' =
       CASE check_status.result = "offline" -> S_Offline
         [] check_status.result = "shown" ->
              tostring(Index(json_decode(gui_status.bytes, 1, "").val, S_message, 473).val)
         [] OTHER -> status_cloud
  /\ UNCHANGED <<mailboxVars, codec, view, clock, queue, prefs, DT_MCP_DIR, gui_status, qf>>

StatusNext ==
  mcp_btn_tag \/ WriteClose \/ mcp_btn_refresh \/ BackendStatus \/ Second

\* the clock advances and a callback that opened its file runs to its end;
\* nothing calls check_status but the user
StatusSpec ==
  PanelInit /\ [][StatusNext]_vars /\ WF_vars(Second) /\ WF_vars(WriteClose)

(***************************************************************************)
(* The MCP view: set_widget, called from Lua, and enter and leave, called   *)
(* by the view manager.                                                     *)
(***************************************************************************)
\* the children of the box
Children(v) == {w \in Widgets : v.placed[w] = "box"}

\* what view:set_widget is called with: lua_gettop, and what stands at index
\* 2: a Lua widget, nothing that is a userdata ("nil"), a widget wrapper whose
\* widget is NULL ("empty"), or a userdata of another type ("foreign")
ViewArgs ==
  {[top |-> 2, kind |-> "widget", w |-> w] : w \in Widgets}
  \cup {[top |-> t, kind |-> "widget", w |-> 1] : t \in {1, 3}}
  \cup {[top |-> 2, kind |-> k, w |-> 0] : k \in {"nil", "empty", "foreign"}}

\* gtk_widget_destroy on every child of the box
DestroyChildren(v) ==
  [v EXCEPT !.placed = [w \in Widgets |-> IF v.placed[w] = "box" THEN "none" ELSE v.placed[w]],
            !.destroyed = v.destroyed \cup Children(v)]

\* gtk_box_pack_start(box, child): GTK refuses a child that has a parent
PackStart(v, w) ==
  IF v.placed[w] = "none" THEN [v EXCEPT !.placed[w] = "box"] ELSE v

\* lines 60 to 78 for a widget: the children are destroyed, the new widget is
\* packed and bound, and 0 is returned
Replace(v, w) ==
  [PackStart(DestroyChildren(v), w) EXCEPT !.bound = v.bound \cup {w},
                                           !.lastOk = w,
                                           !.call = Result("set_widget", "done")]

\* luaL_error: nothing but the error
Raise(v) == [v EXCEPT !.call = Result("set_widget", "raised")]

\* w_lua->widget read from a userdata that is no widget wrapper: the value is
\* not defined.  It may be NULL (the error of line 56), or a pointer GTK
\* refuses after the children are destroyed, or the process dies
Foreign(v) ==
  {Raise(v),
   [DestroyChildren(v) EXCEPT !.call = Result("set_widget", "done")],
   [v EXCEPT !.up = FALSE, !.call = Result("set_widget", "crashed")]}

set_widget_cb(arg) ==
  /\ view.up
  /\ view' \in IF arg.top # 2 THEN {Raise(view)}
               ELSE IF arg.kind \in {"nil", "empty"} THEN {Raise(view)}
               ELSE IF arg.kind = "foreign" THEN Foreign(view)
               ELSE {Replace(view, arg.w)}
  /\ UNCHANGED <<mailboxVars, codec, clock, queue, prefs, DT_MCP_DIR, status_cloud, gui_status,
                 qf, ran>>

\* the reference leave takes before it removes the box
g_object_ref_skipped(v) == v
g_object_ref(v) == [v EXCEPT !.refs = v.refs + 1]
\* gtk_container_remove(center, box): the box leaves the list of children and
\* the reference of the container is dropped
Unparent(v) == [v EXCEPT !.packed = 0, !.refs = v.refs - 1]

\* gtk_box_pack_start(center, box): GTK refuses a box that has a parent; else
\* the container takes the floating reference or a new one
enter ==
  /\ view.up
  /\ view.packed = 0 => (view.floating \/ view.refs < MaxRefs)
  /\ view' = IF view.packed # 0 THEN [view EXCEPT !.entered = TRUE]
             ELSE [view EXCEPT !.packed = 1,
                               !.refs = IF view.floating THEN view.refs ELSE view.refs + 1,
                               !.floating = FALSE,
                               !.entered = TRUE,
                               !.call = Result("enter", "done")]
  /\ UNCHANGED <<mailboxVars, codec, clock, queue, prefs, DT_MCP_DIR, status_cloud, gui_status,
                 qf, ran>>

leave ==
  /\ view.up
  /\ view' = IF view.packed # 0
               THEN [Unparent(g_object_ref(view)) EXCEPT !.entered = FALSE,
                                                         !.call = Result("leave", "done")]
               ELSE [view EXCEPT !.entered = FALSE]
  /\ UNCHANGED <<mailboxVars, codec, clock, queue, prefs, DT_MCP_DIR, status_cloud, gui_status,
                 qf, ran>>

\* a script puts one of its widgets into another container
PackElsewhere(w) ==
  /\ view.up
  /\ view.placed[w] = "none"
  /\ view' = [view EXCEPT !.placed[w] = "lib"]
  /\ UNCHANGED <<mailboxVars, codec, clock, queue, prefs, DT_MCP_DIR, status_cloud, gui_status,
                 qf, ran>>

ViewNext ==
  \/ \E arg \in ViewArgs : set_widget_cb(arg)
  \/ enter
  \/ leave
  \/ \E w \in Widgets : PackElsewhere(w)

ViewSpec == Init /\ [][ViewNext]_vars

(***************************************************************************)
(* Properties of the claim step.                                           *)
(***************************************************************************)
Owning == {"claimed", "drop", "wopen", "wwrite", "publish", "remove"}

\* the tick of watcher w goes on from the failed rename
LoserStep(w) == pc[w] = "opened" /\ ~RenameOk(dir, CMD_FILE) /\ pc'[w] # pc[w]

\* C1: when several watchers race for one incoming request the rename of
\* exactly one of them succeeds, and a watcher whose rename fails ends its
\* tick having called no handler, changed no file and written no response
C1_AtomicClaim ==
  /\ [](\A r \in Requests : Cardinality(claimedBy[r]) <= 1)
  /\ [][\A w \in Watchers :
          LoserStep(w) => /\ pc'[w] = "idle"
                          /\ own'[w] = 0
                          /\ UNCHANGED <<dir, data, db, fd, ghostVars>>]_vars

\* two watchers saw the same request; one renamed it, the other is about to
\* find the rename failing
C1_Witness ==
  \E w \in Watchers, v \in Watchers :
     /\ w # v
     /\ nsub = 1
     /\ pc[w] = "opened" /\ ~RenameOk(dir, CMD_FILE)
     /\ pc[v] = "claimed" /\ own[v] = 1 /\ claimedBy[1] = {v}

\* C2: while a watcher works on the request it claimed, the claimed file is
\* that request's and no watcher reads or answers a request it did not claim
C2_ExclusiveOwner ==
  \A w \in Watchers :
     /\ (pc[w] \in Owning /\ pc[w] # "remove") =>
           (dir[PROC_FILE] # 0 /\ data[dir[PROC_FILE]].req = own[w])
     /\ src[w] # 0 => src[w] = own[w]

\* C3: a tick that claimed a request ends only after it published exactly
\* one response, whatever the payload
C3_ClaimThenPublish ==
  [][\A w \in Watchers :
       (pc[w] \in Owning /\ own[w] # 0 /\ pc'[w] \in Resting) => pubd[w] = 1]_vars

\* C4: no tick of the watcher ends with an error raised out of
\* process_commands, whatever JSON the command file holds
C4_TickNeverRaises == \A w \in Watchers : pc[w] # "raised"

\* the complete responses process_commands can encode
WholeResponses == {Dispatch(p, [i \in Images |-> 0]).resp_str : p \in Payloads} \ {<<>>}

\* C5: what the client reads at the response path is a complete response
C5_NoPartialResponse == lastRead.seen => lastRead.bytes \in WholeResponses

(***************************************************************************)
(* Properties of the whole pipeline.                                       *)
(***************************************************************************)
\* C6: a request goes Incoming, Claimed, Dispatched, Published in that order:
\* nothing is claimed before it was submitted, a watcher decodes and
\* dispatches only after its own rename succeeded, and no response text
\* exists, at the temporary or the final path or in the client's hands,
\* for a request that was not dispatched
C6_PipelineOrder ==
  /\ \A r \in Requests :
        /\ claimedBy[r] # {} => r <= nsub
        /\ dispatched[r] > 0 => claimedBy[r] # {}
        /\ calls[r] > 0 => dispatched[r] > 0
        /\ answers[r] > 0 => dispatched[r] > 0
  /\ \A w \in Watchers :
        /\ src[w] # 0 => (own[w] # 0 /\ dispatched[src[w]] > 0)
        /\ resp[w] # <<>> => src[w] # 0
        /\ pc[w] \in {"wopen", "wwrite", "publish", "remove"} => src[w] # 0
  /\ \A i \in Inodes :
        data[i].role = "response" => (data[i].req # 0 /\ dispatched[data[i].req] > 0)
  /\ (lastRead.seen /\ lastRead.req # 0) => dispatched[lastRead.req] > 0

\* a request went through all four stages: its response is at the final path
C6_Witness ==
  \E r \in Requests :
     /\ dir[RESP_FILE] # 0 /\ data[dir[RESP_FILE]].req = r
     /\ data[dir[RESP_FILE]].bytes # <<>>
     /\ claimedBy[r] # {} /\ dispatched[r] = 1 /\ calls[r] = 1 /\ answers[r] = 1

\* C7: no request is handed to its handler more than once
C7_AtMostOneDispatch == \A r \in Requests : calls[r] <= 1

\* a claimed request whose watcher is gone: the claimed file is there, no
\* running tick owns it, and it has neither a response nor a retry
Orphan(r) ==
  /\ dir[PROC_FILE] # 0 /\ data[dir[PROC_FILE]].req = r
  /\ \A w \in Watchers : own[w] # r
  /\ \E w \in Watchers : pc[w] = "crashed"
  /\ answers[r] = 0
Retried(r) == dir[CMD_FILE] # 0 /\ data[dir[CMD_FILE]].req = r
Answered(r) == answers[r] > 0

\* C8: a request left claimed by a watcher that stopped is, once the watcher
\* runs again, either back in the incoming slot or answered
C8_OrphanRecovered ==
  \A r \in Requests : Orphan(r) ~> (Retried(r) \/ Answered(r))

(***************************************************************************)
(* Properties of the replies.                                              *)
(***************************************************************************)
S_UnknownNonexistent == <<"U", "n", "k", "n", "o", "w", "n", " ", "c", "o", "m", "m", "a", "n", "d", ":", " ", "n", "o", "n", "e", "x", "i", "s", "t", "e", "n", "t", "_", "c", "m", "d">>
S_NotFound9999 == <<"I", "m", "a", "g", "e", " ", "n", "o", "t", " ", "f", "o", "u", "n", "d", ":", " ", "9", "9", "9", "9">>

\* the watcher holds the encoded reply to a request it read
Replying(w) == pc[w] \in {"wopen", "wwrite", "publish", "remove"} /\ src[w] # 0
\* the reply, decoded again, is an error reply with exactly this message
IsErrorReply(text, msg) ==
  LET reply == json_decode(text, 1, "")
  IN /\ reply.ok
     /\ reply.val.k = "table"
     /\ Len(reply.val.v) = 2
     /\ RawGet(reply.val, LStr(S_status)) = LStr(S_error)
     /\ RawGet(reply.val, LStr(S_error)) = LStr(msg)

\* C9: a command name that is not registered runs no handler and is answered
\* {status: error, error: "Unknown command: <name>"}
C9_UnknownCommand ==
  /\ \A r \in Requests : sent[r] = P_unknown => calls[r] = 0
  /\ \A w \in Watchers :
        (Replying(w) /\ sent[src[w]] = P_unknown) =>
           IsErrorReply(resp[w], S_UnknownNonexistent)

\* a watcher has dispatched the request that names nonexistent_cmd
C9_Witness ==
  \E w \in Watchers :
     /\ pc[w] = "publish" /\ src[w] # 0 /\ sent[src[w]] = P_unknown
     /\ dispatched[src[w]] = 1

\* C10: set_rating for image 9999, which does not exist, is answered with the
\* error field exactly "Image not found: 9999"
C10_ImageNotFound ==
  \A w \in Watchers :
     (Replying(w) /\ sent[src[w]] = P_missing) => IsErrorReply(resp[w], S_NotFound9999)

(***************************************************************************)
(* End-to-end scenarios with one watcher.                                  *)
(***************************************************************************)
\* the reply, decoded again, is {status: ok, data: {success: true, id: 42,
\* new_rating: 5}}
IsRatedReply(text) ==
  LET reply == json_decode(text, 1, "")
      body == RawGet(reply.val, LStr(S_data))
  IN /\ reply.ok
     /\ reply.val.k = "table"
     /\ Len(reply.val.v) = 2
     /\ RawGet(reply.val, LStr(S_status)) = LStr(S_ok)
     /\ body.k = "table"
     /\ Len(body.v) = 3
     /\ RawGet(body, LStr(S_success)) = LTrue
     /\ RawGet(body, LStr(S_id)) = LInt(42)
     /\ RawGet(body, LStr(S_new_rating)) = LInt(5)

\* C11: set_rating of image 42 to 5 is claimed by the watcher, sets the
\* rating of image 42 to 5, is answered {status: ok, data: {success: true,
\* id: 42, new_rating: 5}} at the response path and in the client's hands,
\* and the claimed file is gone when the tick ends
C11_ScenarioA ==
  /\ \A r \in Requests :
        (r <= nsub /\ sent[r] = P_ok) ~>
           (claimedBy[r] # {} /\ calls[r] = 1 /\ answers[r] = 1 /\ db[42] = 5)
  /\ [](\A w \in Watchers :
          (Replying(w) /\ sent[src[w]] = P_ok) =>
             (own[w] = src[w] /\ db[42] = 5 /\ IsRatedReply(resp[w])))
  /\ []((dir[RESP_FILE] # 0 /\ data[dir[RESP_FILE]].req # 0
           /\ sent[data[dir[RESP_FILE]].req] = P_ok) =>
             IsRatedReply(data[dir[RESP_FILE]].bytes))
  /\ []((lastRead.seen /\ lastRead.req # 0 /\ sent[lastRead.req] = P_ok) =>
             IsRatedReply(lastRead.bytes))
  /\ [][\A w \in Watchers :
          (pc[w] = "remove" /\ pc'[w] = "idle") => dir'[PROC_FILE] = 0]_vars

\* the client has read the reply to the set_rating request, the rating is
\* stored and the claimed file is gone
C11_Witness ==
  /\ lastRead.seen /\ lastRead.req # 0 /\ sent[lastRead.req] = P_ok
  /\ IsRatedReply(lastRead.bytes)
  /\ db[42] = 5
  /\ dir[PROC_FILE] = 0 /\ dir[RESP_FILE] = 0
  /\ pc[Solo] = "idle"

\* json.decode raises on this text
Undecodable(text) == ~json_decode(text, 1, "").ok
\* result_payload is {status = "error", error = <a string>}
IsErrorTable(payload) ==
  /\ payload.k = "table"
  /\ Len(payload.v) = 2
  /\ RawGet(payload, LStr(S_status)) = LStr(S_error)
  /\ RawGet(payload, LStr(S_error)).k = "string"
\* text is the encoding of an error result_payload made for payload p
IsErrorStatus(text, p) ==
  \E d \in Libraries :
     ~memo[p][d].raised /\ memo[p][d].resp_str = text /\ IsErrorTable(memo[p][d].payload)

\* the tick that claimed request r is over
Settled(r) == claimedBy[r] # {} /\ \A w \in Watchers : own[w] # r
\* what C12 says of request r
ParseErrorAnswered(r) ==
  /\ calls[r] = 0 /\ dispatched[r] <= 1 /\ Cardinality(claimedBy[r]) <= 1
  /\ \A w \in Watchers : (Replying(w) /\ src[w] = r) => IsErrorStatus(resp[w], sent[r])
  /\ Settled(r) => /\ answers[r] = 1
                   /\ ~(dir[PROC_FILE] # 0 /\ data[dir[PROC_FILE]].req = r)

\* C12: a claimed payload that cannot be decoded runs no handler, is answered
\* with an error response, has its claimed file deleted when the tick ends,
\* and is not claimed or decoded again later
C12_ParseErrorAnswered ==
  \A r \in Requests : (r <= nsub /\ Undecodable(sent[r])) => ParseErrorAnswered(r)

\* C12 for the payloads that are not empty
C12_NonEmptyParseError ==
  \A r \in Requests :
     (r <= nsub /\ sent[r] # <<>> /\ Undecodable(sent[r])) => ParseErrorAnswered(r)

\* a truncated payload was answered with an error and its tick is over
C12_NonEmptyWitness ==
  \E r \in Requests :
     /\ r <= nsub /\ sent[r] = P_malformed
     /\ Settled(r) /\ answers[r] = 1 /\ dispatched[r] = 1

(***************************************************************************)
(* Properties of the codec.                                                *)
(***************************************************************************)
\* C13: every envelope value, encoded and decoded again, is the value
C13_RoundTrip ==
  (codec.stage = "decoded" /\ codec.from = "value") =>
     (codec.out.ok /\ codec.out.val = codec.val)

\* C14: json.decode raises on no well-formed document
C14_DecodeTotal ==
  (codec.stage = "decoded" /\ codec.from = "document") => codec.out.ok

RECURSIVE TrailingDigits(_)
\* the digits a message ends with
TrailingDigits(msg) ==
  IF msg # <<>> /\ msg[Len(msg)] \in Digits
    THEN Append(TrailingDigits(SubSeq(msg, 1, Len(msg) - 1)), msg[Len(msg)])
    ELSE <<>>
\* the error names a position of the text or the position of its end
CarriesOffset(res, text) ==
  /\ ~res.ok
  /\ res.val.k = "string"
  /\ TrailingDigits(res.val.v) # <<>>
  /\ DigitsVal(TrailingDigits(res.val.v), 0) \in 1..(Len(text) + 1)

\* C15: decoding a truncated or corrupted payload gives a parse error that
\* carries an offset lying within the input
C15_ParseErrorOffset ==
  (codec.stage = "decoded" /\ codec.from = "corrupt") =>
     CarriesOffset(codec.out, codec.text)

\* a string made only of digits, or a number
Unambiguous(val) ==
  \/ val.k = "number"
  \/ val.k = "string" /\ val.v # <<>> /\ \A i \in 1..Len(val.v) : val.v[i] \in Digits
\* the argument the handler finds under the only name of the input
Delivered == RawGet(codec.out.val, codec.val.v[1][1])

\* C16: a string of digits arrives as that string and a number as that
\* number, through encode and decode and through the legacy argument loop
C16_TypePreserved ==
  /\ (codec.stage = "decoded" /\ codec.from = "value" /\ Unambiguous(codec.val)) =>
        (codec.out.ok /\ codec.out.val = codec.val)
  /\ (codec.stage = "parsed" /\ Unambiguous(codec.val.v[1][2])) =>
        Delivered = codec.val.v[1][2]

\* C16 for the codec alone
C16_CodecTypePreserved ==
  (codec.stage = "decoded" /\ codec.from = "value" /\ Unambiguous(codec.val)) =>
     (codec.out.ok /\ codec.out.val = codec.val)

\* C16 for the legacy argument loop alone
C16_LegacyTypePreserved ==
  (codec.stage = "parsed" /\ Unambiguous(codec.val.v[1][2])) =>
     (Delivered.k = codec.val.v[1][2].k)

(***************************************************************************)
(* Properties of the request files.                                        *)
(***************************************************************************)
\* C17: a submission writes to a path no earlier submission used, so that no
\* request file that is there has its bytes replaced, other than by the
\* callback that holds it open
C17_RequestPathFresh ==
  [][\A path \in QueuePaths :
        (queue[path].there /\ ~(qf.open /\ qf.path = path)) => queue'[path] = queue[path]]_vars

(***************************************************************************)
(* Properties of the responses.                                            *)
(***************************************************************************)
\* the client has read the response made for request r
Received(r) == lastRead.seen /\ lastRead.req = r

\* C18: of two requests filed one after the other, each is fulfilled and its
\* own response reaches the client
C18_BothFulfilled ==
  \A r \in Requests : (r <= nsub /\ sent[r] = P_ok) ~> Received(r)

\* what the response path holds
Published == data[dir[RESP_FILE]]
\* the client takes the response away
Consumed ==
  /\ dir'[RESP_FILE] = 0
  /\ lastRead' = [seen |-> TRUE, bytes |-> Published.bytes, req |-> Published.req]
\* the response path holds after the step what it held before
Kept == dir'[RESP_FILE] # 0 /\ data'[dir'[RESP_FILE]] = Published

\* C19: a request is answered at most once, and a response at the response
\* path stays as it is until the client consumes it
C19_WrittenOnce ==
  /\ [](\A r \in Requests : answers[r] <= 1)
  /\ [][dir[RESP_FILE] # 0 => (Kept \/ Consumed)]_vars

\* C19, the first half: under one watcher no request is answered twice
C19_AnsweredOnce == \A r \in Requests : answers[r] <= 1

\* a result_payload with status ok and data, or status error and a message
StatusShape(payload) ==
  /\ payload.k = "table"
  /\ LET status == RawGet(payload, LStr(S_status))
         body == RawGet(payload, LStr(S_data))
         message == RawGet(payload, LStr(S_error))
     IN /\ status.k = "string"
        /\ status.v \in {S_ok, S_error}
        /\ ~IsNil(body) <=> status.v = S_ok
        /\ message.k = "string" <=> status.v = S_error
        /\ IsNil(message) <=> status.v = S_ok
\* text is the encoding of a result_payload of that shape
HasStatusShape(text) ==
  \E p \in Payloads, d \in Libraries :
     ~memo[p][d].raised /\ memo[p][d].resp_str = text /\ StatusShape(memo[p][d].payload)

\* C20: what the response path holds has status ok with data and no error
\* message, or status error with an error message and no data
C20_StatusShape == dir[RESP_FILE] # 0 => HasStatusShape(Published.bytes)

\* C21: a request file that is there at a request path is complete: it is
\* never seen empty or half written
C21_RequestWhole ==
  \A path \in QueuePaths : queue[path].there => queue[path].bytes # <<>>

(***************************************************************************)
(* Properties of the watcher loop.                                         *)
(***************************************************************************)
\* the tick of watcher w ends where it found the incoming slot empty
EmptyStep(w) == pc[w] \in Resting /\ dir[CMD_FILE] = 0 /\ pc'[w] # pc[w]

\* C22: a tick that finds the slot empty or loses the rename calls no
\* handler, writes no response, changes no file, and leaves the watcher
\* ready for its next tick
C22_FailedClaimHarmless ==
  [][\A w \in Watchers :
        (EmptyStep(w) \/ LoserStep(w)) =>
           /\ pc'[w] = "idle" /\ resp'[w] = <<>> /\ fd'[w] = 0
           /\ UNCHANGED <<dir, data, db, ghostVars>>]_vars

\* a watcher is about to find its rename failing while the competitor that
\* took the request is already writing the response
C22_Witness ==
  \E w \in Watchers, v \in Watchers :
     /\ w # v
     /\ pc[w] = "opened" /\ ~RenameOk(dir, CMD_FILE)
     /\ pc[v] \in {"wopen", "wwrite", "publish"} /\ own[v] # 0

\* watcher w claims request r in this step
Claims(w, r) == own[w] # r /\ own'[w] = r

\* C23: a watcher claims a request only when every request it claimed
\* before has its response published and its claimed file deleted
C23_OneClaimInFlight ==
  [][\A w \in Watchers, r \in Requests :
        Claims(w, r) =>
           \A q \in Requests \ {r} :
              w \in claimedBy[q] =>
                 /\ answers[q] >= 1
                 /\ ~(dir[PROC_FILE] # 0 /\ data[dir[PROC_FILE]].req = q)]_vars

\* the requests that are malformed, name no command, or whose handler fails
BadPayloads == Payloads \ {P_ok}
\* request r is valid and follows a bad one
AfterBad(r) ==
  /\ r <= nsub /\ sent[r] = P_ok
  /\ \E q \in Requests : q < r /\ sent[q] \in BadPayloads
Serviced(r) == claimedBy[r] # {} /\ dispatched[r] = 1 /\ calls[r] = 1 /\ answers[r] = 1

\* C24: a valid request submitted after a bad one is claimed, dispatched and
\* answered
C24_LoopSurvives == \A r \in Requests : AfterBad(r) ~> Serviced(r)

\* a valid request was answered after one whose handler failed
C24_Witness ==
  /\ nsub = 2 /\ sent[1] = P_missing /\ sent[2] = P_ok
  /\ answers[1] = 1 /\ Serviced(2) /\ db[42] = 5

\* request r is at path p
Holds(p, r) == dir[p] # 0 /\ data[dir[p]].req = r
\* the states a request is observable in
StatesOf(r) ==
  {st \in {"incoming", "claimed", "fulfilled"} :
      \/ st = "incoming" /\ Holds(CMD_FILE, r)
      \/ st = "claimed" /\ Holds(PROC_FILE, r)
      \/ st = "fulfilled" /\ Holds(RESP_FILE, r)}

\* C25: the paths show a request in at most one of the states incoming,
\* claimed and fulfilled; a request whose response is at the response path
\* has no claimed file
C25_PathImpliesState == \A r \in Requests : Cardinality(StatesOf(r)) <= 1

(***************************************************************************)
(* Properties of the panel.                                                *)
(***************************************************************************)
\* check_status ran last and found no status file
CheckedAbsent == ran.callback = "check_status" /\ ~gui_status.there

\* C26: reading the status when gui_status.json does not exist raises no
\* error and shows the offline text
C26_AbsentIsOffline ==
  CheckedAbsent => (ran.result = "offline" /\ status_cloud = S_Offline)

\* C26 where the host has assigned DT_MCP_DIR
C26_AbsentIsOfflineAssigned ==
  (CheckedAbsent /\ ~IsNil(DT_MCP_DIR)) => (ran.result = "offline" /\ status_cloud = S_Offline)

\* the status file is older than the staleness window
Stale == gui_status.there /\ clock - gui_status.at >= StalenessWindow
\* the label shows a message taken from a status file
ShowsMessage == status_cloud \notin {S_Idle, S_TagRequested, S_CullRequested, S_Offline}

\* C27: when the status shown has gone stale the label comes to show the
\* offline text, unless the backend writes a new status
C27_StaleIsUnavailable == (Stale /\ ShowsMessage) ~> (status_cloud = S_Offline \/ ~Stale)

\* a tool button was clicked and io.open gave nil for its request file
WriteFailed == ran.callback \in {"mcp_btn_tag", "mcp_btn_cull"} /\ ran.result = "open failed"

\* C28: after a tool button could not open its request file the label shows
\* the failure: it is neither the text it had at construction nor a
\* "requested" text
C28_WriteFailureShown ==
  WriteFailed => status_cloud \notin {S_Idle, S_TagRequested, S_CullRequested}

\* the label marks a tool request as submitted and not yet settled
Pending == status_cloud \in {S_TagRequested, S_CullRequested}

\* C29: a request the panel shows as requested comes to be shown as settled
C29_PendingSettles == Pending ~> ~Pending

\* the three sensitivities, as the claim spells them and as the tooltip does
Enumerated ==
  {<<"s", "t", "r", "i", "c", "t">>, <<"n", "o", "r", "m", "a", "l">>, <<"l", "o", "o", "s", "e">>,
   <<"S", "t", "r", "i", "c", "t">>, S_Normal, <<"L", "o", "o", "s", "e">>}
\* the request files a tool button can write with one of them
EnumeratedRequests ==
  {json_encode(gui_req(tool, sensitivity), FALSE).val :
     tool \in {S_auto_tag_selection, S_cull_selection}, sensitivity \in Enumerated}

\* C30: every tool request written to the queue carries one of the three
\* sensitivities
C30_SensitivityEnumerated ==
  \A t \in Seconds :
     (queue[gui_request_file(t)].there /\ queue[gui_request_file(t)].bytes # <<>>)
        => queue[gui_request_file(t)].bytes \in EnumeratedRequests

\* C31: a command placed in cmd.json is called at most once by the pollers
\* of the legacy bridge
C31_LegacyAtMostOnce == \A r \in Requests : calls[r] <= 1

\* the claimed file of request r is at processing.json before the step and
\* not after it
ClaimedDeleted(r) ==
  /\ Holds(PROC_FILE, r)
  /\ ~(dir'[PROC_FILE] # 0 /\ data'[dir'[PROC_FILE]].req = r)

\* C32: the claimed file of a request is deleted only once a response to the
\* request has been put at response.json
C32_ClaimedUntilPublished ==
  [][\A r \in Requests : ClaimedDeleted(r) => answers'[r] >= 1]_vars

\* watcher w renames response.json.tmp to response.json in this step
Publishes(w) == pc[w] = "publish" /\ pc'[w] = "remove" /\ RenameOk(dir, RESP_TMP_FILE)

\* C33: what a tick renames to response.json is the response it computed for
\* the request it claimed
C33_PublishesOwnResponse ==
  [][\A w \in Watchers :
        Publishes(w) =>
           /\ data'[dir'[RESP_FILE]].req = own[w]
           /\ data'[dir'[RESP_FILE]].bytes = resp[w]]_vars

\* check_status ran last, in a host that has assigned DT_MCP_DIR, and found
\* a status file
CheckedPresent ==
  ran.callback = "check_status" /\ gui_status.there /\ ~IsNil(DT_MCP_DIR)

\* C34: reading the status raises no error, whatever the status file holds
C34_StatusReadNeverRaises == CheckedPresent => ran.result # "raised"

\* C35: once a set_widget call has returned without error the box holds
\* exactly one child, the widget of the last such call
C35_OneChildLastWidget ==
  view.lastOk # 0 => Children(view) = {view.lastOk}

\* C36: the box is a child of the center container exactly while the view is
\* entered, is packed at most once, and is alive
C36_BoxFollowsEnterLeave ==
  /\ (view.packed >= 1) <=> view.entered
  /\ view.packed <= 1
  /\ view.refs >= 1

\* the view was entered, left and entered again
C36_Witness ==
  view.entered /\ view.packed = 1 /\ view.refs = 2 /\ view.call = Result("enter", "done")

=============================================================================
